---------------------------- MODULE Spec2Model ----------------------------
(***************************************************************************)
(* A model of grid-solver: the Hamiltonian path solver for rectangular     *)
(* grid graphs G(n, m) of src/src/gridgraph.rs, src/src/gridpath.rs and    *)
(* src/src/gridproblem.rs.                                                 *)
(*                                                                         *)
(* A coordinate [usize; 2] is the tuple <<x, y>>: Rust's v[0] is v[1]      *)
(* here and Rust's v[1] is v[2].  An Option is a sequence of length at     *)
(* most one: <<>> is None and <<x>> is Some(x).                            *)
(***************************************************************************)
EXTENDS Integers, Sequences, FiniteSets, TLC

VARIABLES
    stack,      \* solve: the call stack of GridProblem::solve, innermost call last
    panic,      \* solve: "" while running, else the fatal failure that ended it
    problem,    \* strip/reconstruct: the GridProblem being stripped
    original,   \* strip/reconstruct: that GridProblem as it was constructed
    lastOp,     \* strip/reconstruct, extend, lookup: the operation that acted last
    replayed,   \* strip/reconstruct: the extensions the last reconstruct drained
    path,       \* extend: the GridPath being extended
    before,     \* extend: the GridPath as it was before the last extend
    query,      \* lookup: the arguments <<width, height, start, end>>
    answer      \* lookup, search: the operation's result

vars == <<stack, panic, problem, original, lastOp, replayed, path, before,
          query, answer>>

-----------------------------------------------------------------------------
(* Bounds of the model *)

\* widths and heights of the problems given to solve and to strip
MaxWidth == 5
MaxHeight == 5
\* widths and heights of the paths given to extend
MaxPathDim == 3
\* number of vertices of the rectangles of the paths given to extend
MaxPathArea == 9
\* number of extensions applied to a path
MaxExtends == 2
\* widths and heights of the grids searched exhaustively
MaxSearchDim == 5
\* number of vertices of the grids searched exhaustively
MaxSearchArea == 20
\* widths, heights and coordinates given to GridProblem::new
MaxNewDim == 3
\* widths and heights of the grid graphs whose predicates are asked
MaxGraphDim == 5
\* number of vertices of the problems whose solve is followed to its end
MaxFairArea == 12
\* widths and heights of the problems solved to their end under fairness
MaxFairDim == 4
\* widths and heights given to GridPath::new
MaxOrderDim == 2
\* length of the vertex orders given to GridPath::new
MaxOrderLen == 3

-----------------------------------------------------------------------------
(* src/src/gridextension.rs: the four directions *)

GridExtension == {"Right", "Up", "Left", "Down"}

-----------------------------------------------------------------------------
(* src/src/gridgraph.rs *)

Coords(n, m) == (0 .. n - 1) \X (0 .. m - 1)

\* (v[0] + v[1]) & 1
par(v) == (v[1] + v[2]) % 2

\* the panic of are_color_compatible, is_corner_vertex and is_forbidden
out_of_bounds(n, m, v) == v[1] >= n \/ v[2] >= m

\* are_color_compatible asking the even parity of w alone on an odd grid
are_color_compatible_one_sided(n, m, v_coords, w_coords) ==
    LET graph_is_odd == (n * m) % 2 = 1
    IN  IF graph_is_odd
        THEN par(w_coords) = 0
        ELSE par(w_coords) # par(v_coords)

are_color_compatible(n, m, v_coords, w_coords) ==
    LET graph_is_odd == (n * m) % 2 = 1
    IN  IF graph_is_odd
        THEN par(w_coords) = 0 /\ par(v_coords) = 0
        ELSE par(w_coords) # par(v_coords)

is_corner_vertex(n, m, v_coords) ==
    LET c1 == <<0, 0>>
        c2 == <<n - 1, 0>>
        c3 == <<0, m - 1>>
        c4 == <<n - 1, m - 1>>
    IN  v_coords = c1 \/ v_coords = c2 \/ v_coords = c3 \/ v_coords = c4

\* is_forbidden_case_1 taking the line to be vertical whatever n is
is_forbidden_case_1_vertical(n, m, v_coords, w_coords) ==
    IF v_coords # <<0, 0>> /\ w_coords # <<0, 0>>
    THEN TRUE
    ELSE LET is_n == TRUE
             bound == IF is_n THEN m ELSE n
         IN  IF is_n /\ (v_coords # <<0, bound - 1>> /\ w_coords # <<0, bound - 1>>)
             THEN TRUE
             ELSE IF ~is_n /\ (v_coords # <<bound - 1, 0>> /\ w_coords # <<bound - 1, 0>>)
                  THEN TRUE
                  ELSE FALSE

is_forbidden_case_1(n, m, v_coords, w_coords) ==
    IF v_coords # <<0, 0>> /\ w_coords # <<0, 0>>
    THEN TRUE
    ELSE LET is_n == n = 1
             bound == IF is_n THEN m ELSE n
         IN  IF is_n /\ (v_coords # <<0, bound - 1>> /\ w_coords # <<0, bound - 1>>)
             THEN TRUE
             ELSE IF ~is_n /\ (v_coords # <<bound - 1, 0>> /\ w_coords # <<bound - 1, 0>>)
                  THEN TRUE
                  ELSE FALSE

\* is_forbidden_case_2 comparing the coordinate along the thin dimension
is_forbidden_case_2_thin_axis(n, m, v_coords, w_coords) ==
    IF is_corner_vertex(n, m, v_coords) \/ is_corner_vertex(n, m, w_coords)
    THEN FALSE
    ELSE LET is_n == n = 2
         IN  IF is_n /\ v_coords[1] = w_coords[1]
             THEN TRUE
             ELSE IF ~is_n /\ v_coords[2] = w_coords[2]
                  THEN TRUE
                  ELSE FALSE

is_forbidden_case_2(n, m, v_coords, w_coords) ==
    IF is_corner_vertex(n, m, v_coords) \/ is_corner_vertex(n, m, w_coords)
    THEN FALSE
    ELSE LET is_n == n = 2
         IN  IF is_n /\ v_coords[2] = w_coords[2]
             THEN TRUE
             ELSE IF ~is_n /\ v_coords[1] = w_coords[1]
                  THEN TRUE
                  ELSE FALSE

\* is_forbidden_case_3 asking a distance above 1 in the middle row too
is_forbidden_case_3_far(n, m, v_coords, w_coords) ==
    LET is_n == n = 3
        opp_dim == IF is_n THEN m ELSE n
        comp_coords == IF is_n THEN <<v_coords[2], w_coords[2]>>
                               ELSE <<v_coords[1], w_coords[1]>>
        is_greater == comp_coords[1] > comp_coords[2]
        distance == IF is_greater THEN comp_coords[1] - comp_coords[2]
                                  ELSE comp_coords[2] - comp_coords[1]
        is_dst_sat == distance > 1
    IN  IF opp_dim % 2 = 1
        THEN FALSE
        ELSE IF par(w_coords) = par(v_coords)
             THEN FALSE
             ELSE IF ~is_dst_sat
                  THEN FALSE
                  ELSE IF is_greater /\ par(v_coords) = 1
                       THEN FALSE
                       ELSE IF ~is_greater /\ par(v_coords) = 0
                            THEN FALSE
                            ELSE TRUE

\* is_forbidden_case_3 comparing v's color with the near corners only
is_forbidden_case_3_near_corner(n, m, v_coords, w_coords) ==
    LET is_n == n = 3
        opp_dim == IF is_n THEN m ELSE n
        comp_coords == IF is_n THEN <<v_coords[2], w_coords[2]>>
                               ELSE <<v_coords[1], w_coords[1]>>
        opp_coord == IF is_n THEN v_coords[1] ELSE v_coords[2]
        is_greater == comp_coords[1] > comp_coords[2]
        distance == IF is_greater THEN comp_coords[1] - comp_coords[2]
                                  ELSE comp_coords[2] - comp_coords[1]
        is_dst_sat == IF opp_coord = 1 THEN distance > 0 ELSE distance > 1
    IN  IF opp_dim % 2 = 1
        THEN FALSE
        ELSE IF par(w_coords) = par(v_coords)
             THEN FALSE
             ELSE IF ~is_dst_sat
                  THEN FALSE
                  ELSE IF par(v_coords) = 0
                       THEN FALSE
                       ELSE TRUE

is_forbidden_case_3(n, m, v_coords, w_coords) ==
    LET is_n == n = 3
        opp_dim == IF is_n THEN m ELSE n
        comp_coords == IF is_n THEN <<v_coords[2], w_coords[2]>>
                               ELSE <<v_coords[1], w_coords[1]>>
        opp_coord == IF is_n THEN v_coords[1] ELSE v_coords[2]
        is_greater == comp_coords[1] > comp_coords[2]
        distance == IF is_greater THEN comp_coords[1] - comp_coords[2]
                                  ELSE comp_coords[2] - comp_coords[1]
        is_dst_sat == IF opp_coord = 1 THEN distance > 0 ELSE distance > 1
    IN  IF opp_dim % 2 = 1
        THEN FALSE
        ELSE IF par(w_coords) = par(v_coords)
             THEN FALSE
             ELSE IF ~is_dst_sat
                  THEN FALSE
                  ELSE IF is_greater /\ par(v_coords) = 1
                       THEN FALSE
                       ELSE IF ~is_greater /\ par(v_coords) = 0
                            THEN FALSE
                            ELSE TRUE

\* is_forbidden asking the case of a dimension 3 before that of a dimension 2
is_forbidden_three_first(n, m, v_coords, w_coords) ==
    IF n = 1 \/ m = 1
    THEN is_forbidden_case_1(n, m, v_coords, w_coords)
    ELSE IF n = 3 \/ m = 3
         THEN is_forbidden_case_3(n, m, v_coords, w_coords)
         ELSE IF n = 2 \/ m = 2
              THEN is_forbidden_case_2(n, m, v_coords, w_coords)
              ELSE FALSE

is_forbidden(n, m, v_coords, w_coords) ==
    IF n = 1 \/ m = 1
    THEN is_forbidden_case_1(n, m, v_coords, w_coords)
    ELSE IF n = 2 \/ m = 2
         THEN is_forbidden_case_2(n, m, v_coords, w_coords)
         ELSE IF n = 3 \/ m = 3
              THEN is_forbidden_case_3(n, m, v_coords, w_coords)
              ELSE FALSE

-----------------------------------------------------------------------------
(* src/src/gridproblem.rs: construction, acceptability, strip, reconstruct *)

\* the bounds test of GridProblem::new with > in the place of >=
new_out_of_bounds_strict(width, height, start_coords, end_coords) ==
    \/ start_coords[1] > width \/ end_coords[1] > width
    \/ start_coords[2] > height \/ end_coords[2] > height

\* GridProblem::new panics on these arguments
new_out_of_bounds(width, height, start_coords, end_coords) ==
    \/ start_coords[1] >= width \/ end_coords[1] >= width
    \/ start_coords[2] >= height \/ end_coords[2] >= height

\* the GridProblem that GridProblem::new returns; its grid_graph is the pair n, m
GridProblem_new(width, height, start_coords, end_coords) ==
    [n |-> width, m |-> height, extensions |-> <<>>,
     start_coords |-> start_coords, end_coords |-> end_coords]

is_acceptable(p) ==
    /\ are_color_compatible(p.n, p.m, p.start_coords, p.end_coords)
    /\ ~is_forbidden(p.n, p.m, p.start_coords, p.end_coords)

\* A strip returns [ok |-> its boolean, p |-> the problem afterwards].
\* strip_right that records the extension and leaves the width as it was
strip_right_same_width(p) ==
    LET bound == p.n
    IN  IF bound - p.start_coords[1] <= 2 \/ bound - p.end_coords[1] <= 2
        THEN [ok |-> FALSE, p |-> p]
        ELSE [ok |-> TRUE, p |-> [p EXCEPT !.extensions = Append(@, "Right")]]

strip_right(p) ==
    LET bound == p.n
        start_diff == bound - p.start_coords[1]
        end_diff == bound - p.end_coords[1]
        stripped_grid_problem ==
            GridProblem_new(p.n - 2, p.m, p.start_coords, p.end_coords)
    IN  IF start_diff <= 2 \/ end_diff <= 2
        THEN [ok |-> FALSE, p |-> p]
        ELSE IF ~is_acceptable(stripped_grid_problem)
             THEN [ok |-> FALSE, p |-> p]
             ELSE [ok |-> TRUE,
                   p |-> [p EXCEPT !.n = p.n - 2,
                                   !.extensions = Append(@, "Right")]]

strip_up(p) ==
    LET bound == p.m
        start_diff == bound - p.start_coords[2]
        end_diff == bound - p.end_coords[2]
        stripped_grid_problem ==
            GridProblem_new(p.n, p.m - 2, p.start_coords, p.end_coords)
    IN  IF start_diff <= 2 \/ end_diff <= 2
        THEN [ok |-> FALSE, p |-> p]
        ELSE IF ~is_acceptable(stripped_grid_problem)
             THEN [ok |-> FALSE, p |-> p]
             ELSE [ok |-> TRUE,
                   p |-> [p EXCEPT !.m = p.m - 2,
                                   !.extensions = Append(@, "Up")]]

\* strip_left that leaves the start and end coordinates where they were
strip_left_untranslated(p) ==
    IF p.start_coords[1] < 2 \/ p.end_coords[1] < 2
    THEN [ok |-> FALSE, p |-> p]
    ELSE LET stripped_start_coords == <<p.start_coords[1] - 2, p.start_coords[2]>>
             stripped_end_coords == <<p.end_coords[1] - 2, p.end_coords[2]>>
             stripped_grid_problem ==
                 GridProblem_new(p.n - 2, p.m, stripped_start_coords, stripped_end_coords)
         IN  IF ~is_acceptable(stripped_grid_problem)
             THEN [ok |-> FALSE, p |-> p]
             ELSE [ok |-> TRUE,
                   p |-> [p EXCEPT !.n = p.n - 2,
                                   !.extensions = Append(@, "Left")]]

strip_left(p) ==
    IF p.start_coords[1] < 2 \/ p.end_coords[1] < 2
    THEN [ok |-> FALSE, p |-> p]
    ELSE LET stripped_start_coords == <<p.start_coords[1] - 2, p.start_coords[2]>>
             stripped_end_coords == <<p.end_coords[1] - 2, p.end_coords[2]>>
             stripped_grid_problem ==
                 GridProblem_new(p.n - 2, p.m, stripped_start_coords, stripped_end_coords)
         IN  IF ~is_acceptable(stripped_grid_problem)
             THEN [ok |-> FALSE, p |-> p]
             ELSE [ok |-> TRUE,
                   p |-> [p EXCEPT !.n = p.n - 2,
                                   !.start_coords = stripped_start_coords,
                                   !.end_coords = stripped_end_coords,
                                   !.extensions = Append(@, "Left")]]

\* strip_down that translates the start vertex only
strip_down_end_kept(p) ==
    IF p.start_coords[2] < 2 \/ p.end_coords[2] < 2
    THEN [ok |-> FALSE, p |-> p]
    ELSE LET stripped_start_coords == <<p.start_coords[1], p.start_coords[2] - 2>>
             stripped_end_coords == <<p.end_coords[1], p.end_coords[2] - 2>>
             stripped_grid_problem ==
                 GridProblem_new(p.n, p.m - 2, stripped_start_coords, stripped_end_coords)
         IN  IF ~is_acceptable(stripped_grid_problem)
             THEN [ok |-> FALSE, p |-> p]
             ELSE [ok |-> TRUE,
                   p |-> [p EXCEPT !.m = p.m - 2,
                                   !.start_coords = stripped_start_coords,
                                   !.extensions = Append(@, "Down")]]

strip_down(p) ==
    IF p.start_coords[2] < 2 \/ p.end_coords[2] < 2
    THEN [ok |-> FALSE, p |-> p]
    ELSE LET stripped_start_coords == <<p.start_coords[1], p.start_coords[2] - 2>>
             stripped_end_coords == <<p.end_coords[1], p.end_coords[2] - 2>>
             stripped_grid_problem ==
                 GridProblem_new(p.n, p.m - 2, stripped_start_coords, stripped_end_coords)
         IN  IF ~is_acceptable(stripped_grid_problem)
             THEN [ok |-> FALSE, p |-> p]
             ELSE [ok |-> TRUE,
                   p |-> [p EXCEPT !.m = p.m - 2,
                                   !.start_coords = stripped_start_coords,
                                   !.end_coords = stripped_end_coords,
                                   !.extensions = Append(@, "Down")]]

\* strip that tries up before right
strip_up_first(p) ==
    IF strip_up(p).ok THEN strip_up(p)
    ELSE IF strip_right(p).ok THEN strip_right(p)
    ELSE IF strip_left(p).ok THEN strip_left(p)
    ELSE IF strip_down(p).ok THEN strip_down(p)
    ELSE [ok |-> FALSE, p |-> p]

strip(p) ==
    IF strip_right(p).ok THEN strip_right(p)
    ELSE IF strip_up(p).ok THEN strip_up(p)
    ELSE IF strip_left(p).ok THEN strip_left(p)
    ELSE IF strip_down(p).ok THEN strip_down(p)
    ELSE [ok |-> FALSE, p |-> p]

\* the loop body of reconstruct with Down growing the height only
reconstruct_step_untranslated(p, extension) ==
    CASE extension = "Right" -> [p EXCEPT !.n = @ + 2]
      [] extension = "Up"    -> [p EXCEPT !.m = @ + 2]
      [] extension = "Left"  ->
            [p EXCEPT !.n = @ + 2,
                      !.start_coords = <<@[1] + 2, @[2]>>,
                      !.end_coords = <<@[1] + 2, @[2]>>]
      [] extension = "Down"  -> [p EXCEPT !.m = @ + 2]

\* the loop body of reconstruct: one extension applied to the new dimensions
\* and the new start and end coordinates
reconstruct_step(p, extension) ==
    CASE extension = "Right" -> [p EXCEPT !.n = @ + 2]
      [] extension = "Up"    -> [p EXCEPT !.m = @ + 2]
      [] extension = "Left"  ->
            [p EXCEPT !.n = @ + 2,
                      !.start_coords = <<@[1] + 2, @[2]>>,
                      !.end_coords = <<@[1] + 2, @[2]>>]
      [] extension = "Down"  ->
            [p EXCEPT !.m = @ + 2,
                      !.start_coords = <<@[1], @[2] + 2>>,
                      !.end_coords = <<@[1], @[2] + 2>>]

RECURSIVE reconstruct_from(_, _)
reconstruct_from(p, k) ==
    IF k > Len(p.extensions)
    THEN p
    ELSE reconstruct_from(reconstruct_step(p, p.extensions[k]), k + 1)

\* reconstruct without self.extensions.clear()
reconstruct_uncleared(p) ==
    IF Len(p.extensions) = 0
    THEN p
    ELSE reconstruct_from(p, 1)

reconstruct(p) ==
    IF Len(p.extensions) = 0
    THEN p
    ELSE [reconstruct_from(p, 1) EXCEPT !.extensions = <<>>]

-----------------------------------------------------------------------------
(* src/src/gridpath.rs: the prime table, lookup, shifts and extensions *)

PRIME_SOLUTION_JSON ==
    <<
      [n |-> 2, m |-> 2, paths |-> <<
          << <<0, 0>>, <<1, 0>>, <<1, 1>>, <<0, 1>> >>,
          << <<0, 0>>, <<0, 1>>, <<1, 1>>, <<1, 0>> >>,
          << <<0, 1>>, <<1, 1>>, <<1, 0>>, <<0, 0>> >>,
          << <<1, 0>>, <<1, 1>>, <<0, 1>>, <<0, 0>> >>,
          << <<1, 1>>, <<0, 1>>, <<0, 0>>, <<1, 0>> >>,
          << <<1, 1>>, <<1, 0>>, <<0, 0>>, <<0, 1>> >>,
          << <<1, 0>>, <<0, 0>>, <<0, 1>>, <<1, 1>> >>,
          << <<1, 0>>, <<0, 0>>, <<0, 1>>, <<1, 1>> >>,
          << <<0, 1>>, <<0, 0>>, <<1, 0>>, <<1, 1>> >>
      >>],
      [n |-> 2, m |-> 3, paths |-> <<
          << <<0, 0>>, <<1, 0>>, <<1, 1>>, <<1, 2>>, <<0, 2>>, <<0, 1>> >>,
          << <<0, 0>>, <<0, 1>>, <<0, 2>>, <<1, 2>>, <<1, 1>>, <<0, 1>> >>,
          << <<0, 0>>, <<1, 0>>, <<1, 1>>, <<0, 1>>, <<0, 2>>, <<1, 2>> >>,
          << <<0, 1>>, <<0, 2>>, <<1, 2>>, <<1, 1>>, <<1, 0>>, <<0, 0>> >>,
          << <<0, 1>>, <<0, 0>>, <<1, 0>>, <<1, 1>>, <<1, 2>>, <<0, 2>> >>,
          << <<0, 2>>, <<1, 2>>, <<1, 1>>, <<1, 0>>, <<0, 0>>, <<0, 1>> >>,
          << <<0, 2>>, <<1, 2>>, <<1, 1>>, <<1, 0>>, <<0, 0>>, <<1, 0>> >>,
          << <<0, 2>>, <<0, 1>>, <<0, 0>>, <<1, 0>>, <<1, 1>>, <<1, 2>> >>,
          << <<1, 0>>, <<1, 1>>, <<1, 2>>, <<0, 2>>, <<0, 1>>, <<0, 0>> >>,
          << <<1, 0>>, <<0, 0>>, <<0, 1>>, <<1, 1>>, <<1, 2>>, <<0, 2>> >>,
          << <<1, 0>>, <<0, 0>>, <<0, 1>>, <<0, 2>>, <<1, 2>>, <<1, 1>> >>,
          << <<1, 1>>, <<1, 2>>, <<0, 2>>, <<0, 1>>, <<0, 0>>, <<1, 0>> >>,
          << <<1, 1>>, <<1, 0>>, <<0, 0>>, <<0, 1>>, <<0, 2>>, <<1, 2>> >>,
          << <<1, 2>>, <<0, 2>>, <<0, 1>>, <<1, 1>>, <<1, 0>>, <<0, 0>> >>,
          << <<1, 2>>, <<1, 1>>, <<1, 0>>, <<0, 0>>, <<0, 1>>, <<0, 2>> >>,
          << <<1, 2>>, <<0, 2>>, <<0, 1>>, <<0, 0>>, <<1, 0>>, <<1, 1>> >>
      >>],
      [n |-> 3, m |-> 2, paths |-> <<
          << <<0, 0>>, <<0, 1>>, <<1, 1>>, <<2, 1>>, <<2, 0>>, <<1, 0>> >>,
          << <<0, 0>>, <<1, 0>>, <<2, 0>>, <<2, 1>>, <<1, 1>>, <<0, 1>> >>,
          << <<0, 0>>, <<0, 1>>, <<1, 1>>, <<1, 0>>, <<2, 0>>, <<2, 1>> >>,
          << <<1, 0>>, <<2, 0>>, <<2, 1>>, <<1, 1>>, <<0, 1>>, <<0, 0>> >>,
          << <<1, 0>>, <<0, 0>>, <<0, 1>>, <<1, 1>>, <<2, 1>>, <<2, 0>> >>,
          << <<2, 0>>, <<2, 1>>, <<1, 1>>, <<0, 1>>, <<0, 0>>, <<1, 0>> >>,
          << <<2, 0>>, <<2, 1>>, <<1, 1>>, <<1, 0>>, <<0, 0>>, <<0, 1>> >>,
          << <<2, 0>>, <<1, 0>>, <<0, 0>>, <<0, 1>>, <<1, 1>>, <<2, 1>> >>,
          << <<0, 1>>, <<1, 1>>, <<2, 1>>, <<2, 0>>, <<1, 0>>, <<0, 0>> >>,
          << <<0, 1>>, <<0, 0>>, <<1, 0>>, <<1, 1>>, <<2, 1>>, <<2, 0>> >>,
          << <<0, 1>>, <<0, 0>>, <<1, 0>>, <<2, 0>>, <<2, 1>>, <<1, 1>> >>,
          << <<1, 1>>, <<2, 1>>, <<2, 0>>, <<1, 0>>, <<0, 0>>, <<0, 1>> >>,
          << <<1, 1>>, <<0, 1>>, <<0, 0>>, <<1, 0>>, <<2, 0>>, <<2, 1>> >>,
          << <<2, 1>>, <<2, 0>>, <<1, 0>>, <<1, 1>>, <<0, 1>>, <<0, 0>> >>,
          << <<2, 1>>, <<1, 1>>, <<0, 1>>, <<0, 0>>, <<1, 0>>, <<2, 0>> >>,
          << <<2, 1>>, <<2, 0>>, <<1, 0>>, <<0, 0>>, <<0, 1>>, <<1, 1>> >>
      >>],
      [n |-> 3, m |-> 3, paths |-> <<
          << <<0, 0>>, <<1, 0>>, <<2, 0>>, <<2, 1>>, <<2, 2>>, <<1, 2>>, <<1, 1>>, <<0, 1>>, <<0, 2>> >>,
          << <<0, 0>>, <<0, 1>>, <<0, 2>>, <<1, 2>>, <<2, 2>>, <<2, 1>>, <<2, 0>>, <<1, 0>>, <<1, 1>> >>,
          << <<0, 0>>, <<1, 0>>, <<1, 1>>, <<0, 1>>, <<0, 2>>, <<1, 2>>, <<2, 2>>, <<2, 1>>, <<2, 0>> >>,
          << <<0, 0>>, <<1, 0>>, <<2, 0>>, <<2, 1>>, <<1, 1>>, <<0, 1>>, <<0, 2>>, <<1, 2>>, <<2, 2>> >>,
          << <<0, 2>>, <<1, 2>>, <<2, 2>>, <<2, 1>>, <<2, 0>>, <<1, 0>>, <<1, 1>>, <<0, 1>>, <<0, 0>> >>,
          << <<0, 2>>, <<1, 2>>, <<2, 2>>, <<2, 1>>, <<2, 0>>, <<1, 0>>, <<0, 0>>, <<0, 1>>, <<1, 1>> >>,
          << <<0, 2>>, <<0, 1>>, <<0, 0>>, <<1, 0>>, <<1, 1>>, <<1, 2>>, <<2, 2>>, <<2, 1>>, <<2, 0>> >>,
          << <<0, 2>>, <<1, 2>>, <<1, 1>>, <<0, 1>>, <<0, 0>>, <<1, 0>>, <<2, 0>>, <<2, 1>>, <<2, 2>> >>,
          << <<1, 1>>, <<0, 1>>, <<0, 2>>, <<1, 2>>, <<2, 2>>, <<2, 1>>, <<2, 0>>, <<1, 0>>, <<0, 0>> >>,
          << <<1, 1>>, <<1, 2>>, <<2, 2>>, <<2, 1>>, <<2, 0>>, <<1, 0>>, <<0, 0>>, <<0, 1>>, <<0, 2>> >>,
          << <<1, 1>>, <<2, 1>>, <<2, 2>>, <<1, 2>>, <<0, 2>>, <<0, 1>>, <<0, 0>>, <<1, 0>>, <<2, 0>> >>,
          << <<1, 1>>, <<2, 1>>, <<2, 0>>, <<1, 0>>, <<0, 0>>, <<0, 1>>, <<0, 2>>, <<1, 2>>, <<2, 2>> >>,
          << <<2, 0>>, <<2, 1>>, <<2, 2>>, <<1, 2>>, <<0, 2>>, <<0, 1>>, <<1, 1>>, <<1, 0>>, <<0, 0>> >>,
          << <<2, 0>>, <<2, 1>>, <<2, 2>>, <<1, 2>>, <<0, 2>>, <<0, 1>>, <<0, 0>>, <<1, 0>>, <<1, 1>> >>,
          << <<2, 0>>, <<1, 0>>, <<0, 0>>, <<0, 1>>, <<1, 1>>, <<2, 1>>, <<2, 2>>, <<1, 2>>, <<0, 2>> >>,
          << <<2, 0>>, <<1, 0>>, <<0, 0>>, <<0, 1>>, <<0, 2>>, <<1, 2>>, <<1, 1>>, <<2, 1>>, <<2, 2>> >>,
          << <<2, 2>>, <<2, 1>>, <<2, 0>>, <<1, 0>>, <<1, 1>>, <<1, 2>>, <<0, 2>>, <<0, 1>>, <<0, 0>> >>,
          << <<2, 2>>, <<2, 1>>, <<2, 0>>, <<1, 0>>, <<0, 0>>, <<0, 1>>, <<1, 1>>, <<1, 2>>, <<0, 2>> >>,
          << <<2, 2>>, <<2, 1>>, <<2, 0>>, <<1, 0>>, <<0, 0>>, <<0, 1>>, <<0, 2>>, <<1, 2>>, <<1, 1>> >>,
          << <<2, 2>>, <<1, 2>>, <<0, 2>>, <<0, 1>>, <<0, 0>>, <<1, 0>>, <<1, 1>>, <<2, 1>>, <<2, 0>> >>
      >>],
      [n |-> 4, m |-> 5, paths |-> <<
          << <<0, 1>>, <<0, 0>>, <<1, 0>>, <<2, 0>>, <<3, 0>>, <<3, 1>>, <<2, 1>>, <<2, 2>>, <<3, 2>>, <<3, 3>>, <<3, 4>>, <<2, 4>>, <<2, 3>>, <<1, 3>>, <<1, 4>>, <<0, 4>>, <<0, 3>>, <<0, 2>>, <<1, 2>>, <<1, 1>> >>,
          << <<0, 3>>, <<0, 4>>, <<1, 4>>, <<2, 4>>, <<3, 4>>, <<3, 3>>, <<2, 3>>, <<2, 2>>, <<3, 2>>, <<3, 1>>, <<3, 0>>, <<2, 0>>, <<2, 1>>, <<1, 1>>, <<1, 0>>, <<0, 0>>, <<0, 1>>, <<0, 2>>, <<1, 2>>, <<1, 3>> >>,
          << <<1, 1>>, <<1, 2>>, <<0, 2>>, <<0, 3>>, <<0, 4>>, <<1, 4>>, <<1, 3>>, <<2, 3>>, <<2, 4>>, <<3, 4>>, <<3, 3>>, <<3, 2>>, <<2, 2>>, <<2, 1>>, <<3, 1>>, <<3, 0>>, <<2, 0>>, <<1, 0>>, <<0, 0>>, <<0, 1>> >>,
          << <<1, 3>>, <<1, 2>>, <<0, 2>>, <<0, 1>>, <<0, 0>>, <<1, 0>>, <<1, 1>>, <<2, 1>>, <<2, 0>>, <<3, 0>>, <<3, 1>>, <<3, 2>>, <<2, 2>>, <<2, 3>>, <<3, 3>>, <<3, 4>>, <<2, 4>>, <<1, 4>>, <<0, 4>>, <<0, 3>> >>,
          << <<2, 1>>, <<2, 2>>, <<3, 2>>, <<3, 3>>, <<3, 4>>, <<2, 4>>, <<2, 3>>, <<1, 3>>, <<1, 4>>, <<0, 4>>, <<0, 3>>, <<0, 2>>, <<1, 2>>, <<1, 1>>, <<0, 1>>, <<0, 0>>, <<1, 0>>, <<2, 0>>, <<3, 0>>, <<3, 1>> >>,
          << <<2, 3>>, <<2, 2>>, <<3, 2>>, <<3, 1>>, <<3, 0>>, <<2, 0>>, <<2, 1>>, <<1, 1>>, <<1, 0>>, <<0, 0>>, <<0, 1>>, <<0, 2>>, <<1, 2>>, <<1, 3>>, <<0, 3>>, <<0, 4>>, <<1, 4>>, <<2, 4>>, <<3, 4>>, <<3, 3>> >>,
          << <<3, 1>>, <<3, 0>>, <<2, 0>>, <<1, 0>>, <<0, 0>>, <<0, 1>>, <<1, 1>>, <<1, 2>>, <<0, 2>>, <<0, 3>>, <<0, 4>>, <<1, 4>>, <<1, 3>>, <<2, 3>>, <<2, 4>>, <<3, 4>>, <<3, 3>>, <<3, 2>>, <<2, 2>>, <<2, 1>> >>,
          << <<3, 3>>, <<3, 4>>, <<2, 4>>, <<1, 4>>, <<0, 4>>, <<0, 3>>, <<1, 3>>, <<1, 2>>, <<0, 2>>, <<0, 1>>, <<0, 0>>, <<1, 0>>, <<1, 1>>, <<2, 1>>, <<2, 0>>, <<3, 0>>, <<3, 1>>, <<3, 2>>, <<2, 2>>, <<2, 3>> >>
      >>],
      [n |-> 5, m |-> 4, paths |-> <<
          << <<1, 0>>, <<0, 0>>, <<0, 1>>, <<0, 2>>, <<0, 3>>, <<1, 3>>, <<1, 2>>, <<2, 2>>, <<2, 3>>, <<3, 3>>, <<4, 3>>, <<4, 2>>, <<3, 2>>, <<3, 1>>, <<4, 1>>, <<4, 0>>, <<3, 0>>, <<2, 0>>, <<2, 1>>, <<1, 1>> >>,
          << <<1, 1>>, <<2, 1>>, <<2, 0>>, <<3, 0>>, <<4, 0>>, <<4, 1>>, <<3, 1>>, <<3, 2>>, <<4, 2>>, <<4, 3>>, <<3, 3>>, <<2, 3>>, <<2, 2>>, <<1, 2>>, <<1, 3>>, <<0, 3>>, <<0, 2>>, <<0, 1>>, <<0, 0>>, <<1, 0>> >>,
          << <<1, 2>>, <<2, 2>>, <<2, 3>>, <<3, 3>>, <<4, 3>>, <<4, 2>>, <<3, 2>>, <<3, 1>>, <<4, 1>>, <<4, 0>>, <<3, 0>>, <<2, 0>>, <<2, 1>>, <<1, 1>>, <<1, 0>>, <<0, 0>>, <<0, 1>>, <<0, 2>>, <<0, 3>>, <<1, 3>> >>,
          << <<1, 3>>, <<0, 3>>, <<0, 2>>, <<0, 1>>, <<0, 0>>, <<1, 0>>, <<1, 1>>, <<2, 1>>, <<2, 0>>, <<3, 0>>, <<4, 0>>, <<4, 1>>, <<3, 1>>, <<3, 2>>, <<4, 2>>, <<4, 3>>, <<3, 3>>, <<2, 3>>, <<2, 2>>, <<1, 2>> >>,
          << <<3, 0>>, <<4, 0>>, <<4, 1>>, <<4, 2>>, <<4, 3>>, <<3, 3>>, <<3, 2>>, <<2, 2>>, <<2, 3>>, <<1, 3>>, <<0, 3>>, <<0, 2>>, <<1, 2>>, <<1, 1>>, <<0, 1>>, <<0, 0>>, <<1, 0>>, <<2, 0>>, <<2, 1>>, <<3, 1>> >>,
          << <<3, 1>>, <<2, 1>>, <<2, 0>>, <<1, 0>>, <<0, 0>>, <<0, 1>>, <<1, 1>>, <<1, 2>>, <<0, 2>>, <<0, 3>>, <<1, 3>>, <<2, 3>>, <<2, 2>>, <<3, 2>>, <<3, 3>>, <<4, 3>>, <<4, 4>>, <<4, 1>>, <<4, 0>>, <<3, 0>> >>,
          << <<3, 2>>, <<2, 2>>, <<2, 3>>, <<1, 3>>, <<0, 3>>, <<0, 2>>, <<1, 2>>, <<1, 1>>, <<0, 1>>, <<0, 0>>, <<1, 0>>, <<2, 0>>, <<2, 1>>, <<3, 1>>, <<3, 0>>, <<4, 0>>, <<4, 1>>, <<4, 2>>, <<4, 3>>, <<3, 3>> >>,
          << <<3, 3>>, <<4, 3>>, <<4, 2>>, <<4, 1>>, <<4, 0>>, <<3, 0>>, <<3, 1>>, <<2, 1>>, <<2, 0>>, <<1, 0>>, <<0, 0>>, <<0, 1>>, <<1, 1>>, <<1, 2>>, <<0, 2>>, <<0, 3>>, <<1, 3>>, <<2, 3>>, <<2, 2>>, <<3, 2>> >>
      >>]
    >>

\* a GridPath; its petgraph graph is rebuilt from vertex_order and only displayed
GridPath_new(n, m, vertex_order) ==
    [n |-> n, m |-> m, vertex_order |-> vertex_order]

\* get_graph_from_vertex_order panics: petgraph's add_edge is given the index
\* (y * n) + x of a node that the n * m nodes of the graph do not include
graph_index_out_of_bounds(n, m, vertex_order) ==
    \E i \in 2 .. Len(vertex_order) :
        \/ (vertex_order[i - 1][2] * n) + vertex_order[i - 1][1] >= n * m
        \/ (vertex_order[i][2] * n) + vertex_order[i][1] >= n * m

\* the first element of the table whose dimensions match, as an Option
first_dimension_match(width, height) ==
    LET matching == {k \in 1 .. Len(PRIME_SOLUTION_JSON) :
                        /\ PRIME_SOLUTION_JSON[k].n = width
                        /\ PRIME_SOLUTION_JSON[k].m = height}
    IN  IF matching = {}
        THEN <<>>
        ELSE <<PRIME_SOLUTION_JSON[CHOOSE k \in matching : \A l \in matching : k <= l]>>

\* prime_path[0] == start && prime_path[(width * height) - 1] == end; an index
\* outside the JSON array reads null, which equals no number
endpoints_match(prime_path, width, height, start, end) ==
    /\ Len(prime_path) >= 1
    /\ prime_path[1] = start
    /\ width * height <= Len(prime_path)
    /\ prime_path[width * height] = end

is_prime(width, height, start, end) ==
    LET found == first_dimension_match(width, height)
    IN  IF found = <<>>
        THEN FALSE
        ELSE \E k \in 1 .. Len(found[1].paths) :
                endpoints_match(found[1].paths[k], width, height, start, end)

\* Some(path) or None; the caller checks graph_index_out_of_bounds
get_prime(width, height, start, end) ==
    LET found == first_dimension_match(width, height)
    IN  IF found = <<>>
        THEN <<>>
        ELSE LET paths == found[1].paths
                 matching == {k \in 1 .. Len(paths) :
                                 endpoints_match(paths[k], width, height, start, end)}
             IN  IF matching = {}
                 THEN <<>>
                 ELSE <<GridPath_new(width, height,
                            paths[CHOOSE k \in matching : \A l \in matching : k <= l])>>

get_right_shift_vertex_order(vertex_order, shift) ==
    [k \in 1 .. Len(vertex_order) |-> <<vertex_order[k][1] + shift, vertex_order[k][2]>>]

get_up_shift_vertex_order(vertex_order, shift) ==
    [k \in 1 .. Len(vertex_order) |-> <<vertex_order[k][1], vertex_order[k][2] + shift>>]

\* the Rust range a..b collected, and (a..b).rev() collected
Range(a, b) == IF b > a THEN [k \in 1 .. b - a |-> a + k - 1] ELSE <<>>
RevRange(a, b) == IF b > a THEN [k \in 1 .. b - a |-> b - k] ELSE <<>>

\* ext_path: the three loops pushing [j, y] (or [x, j]) over the three ranges
ext_row(range, y) == [k \in 1 .. Len(range) |-> <<range[k], y>>]
ext_col(range, x) == [k \in 1 .. Len(range) |-> <<x, range[k]>>]

\* vertex_order.splice(i..i, ext_path), i the 1-based index of the second vertex
splice(vertex_order, i, ext_path) ==
    SubSeq(vertex_order, 1, i - 1) \o ext_path \o SubSeq(vertex_order, i, Len(vertex_order))

\* the least index satisfying the scan's condition, 0 when the loop falls through
first_index(indices) ==
    IF indices = {} THEN 0 ELSE CHOOSE i \in indices : \A j \in indices : i <= j

\* what an extension did: fail is "" or the panic; gp is the GridPath afterwards
\* (the vertex order is overwritten before the graph is built, n and m after)
extended(gp, n, m, vertex_order) ==
    IF graph_index_out_of_bounds(n, m, vertex_order)
    THEN [fail |-> "GraphIndex", gp |-> [gp EXCEPT !.vertex_order = vertex_order]]
    ELSE [fail |-> "", gp |-> GridPath_new(n, m, vertex_order)]

extend_up(gp) ==
    LET vo == gp.vertex_order
        bound == gp.m - 1
        i == first_index({k \in 2 .. Len(vo) : ~(vo[k][2] # bound \/ vo[k - 1][2] # bound)})
    IN  IF i = 0
        THEN [fail |-> "NoBoundaryEdge", gp |-> gp]
        ELSE LET left_first == vo[i - 1][1] < vo[i][1]
                 start_range == IF left_first THEN RevRange(0, vo[i - 1][1] + 1)
                                              ELSE Range(vo[i - 1][1], gp.n)
                 mid_range == IF left_first THEN Range(0, gp.n) ELSE RevRange(0, gp.n)
                 end_range == IF left_first THEN RevRange(vo[i][1], gp.n)
                                            ELSE Range(0, vo[i][1])
                 ext_path == ext_row(start_range, gp.m) \o ext_row(mid_range, gp.m + 1)
                                \o ext_row(end_range, gp.m)
             IN  extended(gp, gp.n, gp.m + 2, splice(vo, i, ext_path))

\* extend_down that grows the height before it looks for a boundary edge
extend_down_grown(gp) ==
    LET vo == gp.vertex_order
        i == first_index({k \in 2 .. Len(vo) : ~(vo[k][2] # 0 \/ vo[k - 1][2] # 0)})
    IN  IF i = 0
        THEN [fail |-> "NoBoundaryEdge", gp |-> [gp EXCEPT !.m = @ + 2]]
        ELSE LET new_vertex_order == get_up_shift_vertex_order(vo, 2)
                 left_first == new_vertex_order[i - 1][1] < new_vertex_order[i][1]
                 start_range == IF left_first THEN RevRange(0, new_vertex_order[i - 1][1] + 1)
                                              ELSE Range(new_vertex_order[i - 1][1], gp.n)
                 mid_range == IF left_first THEN Range(0, gp.n) ELSE RevRange(0, gp.n)
                 end_range == IF left_first THEN RevRange(new_vertex_order[i][1], gp.n)
                                            ELSE Range(0, new_vertex_order[i][1] + 1)
                 ext_path == ext_row(start_range, 1) \o ext_row(mid_range, 0)
                                \o ext_row(end_range, 1)
             IN  extended(gp, gp.n, gp.m + 2, splice(new_vertex_order, i, ext_path))

extend_down(gp) ==
    LET vo == gp.vertex_order
        i == first_index({k \in 2 .. Len(vo) : ~(vo[k][2] # 0 \/ vo[k - 1][2] # 0)})
    IN  IF i = 0
        THEN [fail |-> "NoBoundaryEdge", gp |-> gp]
        ELSE LET new_vertex_order == get_up_shift_vertex_order(vo, 2)
                 left_first == new_vertex_order[i - 1][1] < new_vertex_order[i][1]
                 start_range == IF left_first THEN RevRange(0, new_vertex_order[i - 1][1] + 1)
                                              ELSE Range(new_vertex_order[i - 1][1], gp.n)
                 mid_range == IF left_first THEN Range(0, gp.n) ELSE RevRange(0, gp.n)
                 end_range == IF left_first THEN RevRange(new_vertex_order[i][1], gp.n)
                                            ELSE Range(0, new_vertex_order[i][1] + 1)
                 ext_path == ext_row(start_range, 1) \o ext_row(mid_range, 0)
                                \o ext_row(end_range, 1)
             IN  extended(gp, gp.n, gp.m + 2, splice(new_vertex_order, i, ext_path))

\* extend_right whose upward detour stops a row short, as extend_up's does
extend_right_short(gp) ==
    LET vo == gp.vertex_order
        bound == gp.n - 1
        i == first_index({k \in 2 .. Len(vo) : ~(vo[k][1] # bound \/ vo[k - 1][1] # bound)})
    IN  IF i = 0
        THEN [fail |-> "NoBoundaryEdge", gp |-> gp]
        ELSE LET down_first == vo[i - 1][2] < vo[i][2]
                 start_range == IF down_first THEN RevRange(0, vo[i - 1][2] + 1)
                                              ELSE Range(vo[i - 1][2], gp.m)
                 mid_range == IF down_first THEN Range(0, gp.m) ELSE RevRange(0, gp.m)
                 end_range == IF down_first THEN RevRange(vo[i][2], gp.m)
                                            ELSE Range(0, vo[i][2])
                 ext_path == ext_col(start_range, gp.n) \o ext_col(mid_range, gp.n + 1)
                                \o ext_col(end_range, gp.n)
             IN  extended(gp, gp.n + 2, gp.m, splice(vo, i, ext_path))

extend_right(gp) ==
    LET vo == gp.vertex_order
        bound == gp.n - 1
        i == first_index({k \in 2 .. Len(vo) : ~(vo[k][1] # bound \/ vo[k - 1][1] # bound)})
    IN  IF i = 0
        THEN [fail |-> "NoBoundaryEdge", gp |-> gp]
        ELSE LET down_first == vo[i - 1][2] < vo[i][2]
                 start_range == IF down_first THEN RevRange(0, vo[i - 1][2] + 1)
                                              ELSE Range(vo[i - 1][2], gp.m)
                 mid_range == IF down_first THEN Range(0, gp.m) ELSE RevRange(0, gp.m)
                 end_range == IF down_first THEN RevRange(vo[i][2], gp.m)
                                            ELSE Range(0, vo[i][2] + 1)
                 ext_path == ext_col(start_range, gp.n) \o ext_col(mid_range, gp.n + 1)
                                \o ext_col(end_range, gp.n)
             IN  extended(gp, gp.n + 2, gp.m, splice(vo, i, ext_path))

extend_left(gp) ==
    LET vo == gp.vertex_order
        i == first_index({k \in 2 .. Len(vo) : ~(vo[k][1] # 0 \/ vo[k - 1][1] # 0)})
    IN  IF i = 0
        THEN [fail |-> "NoBoundaryEdge", gp |-> gp]
        ELSE LET new_vertex_order == get_right_shift_vertex_order(vo, 2)
                 down_first == new_vertex_order[i - 1][2] < new_vertex_order[i][2]
                 start_range == IF down_first THEN RevRange(0, new_vertex_order[i - 1][2] + 1)
                                              ELSE Range(new_vertex_order[i - 1][2], gp.m)
                 mid_range == IF down_first THEN Range(0, gp.m) ELSE RevRange(0, gp.m)
                 end_range == IF down_first THEN RevRange(new_vertex_order[i][2], gp.m)
                                            ELSE Range(0, new_vertex_order[i][2] + 1)
                 ext_path == ext_col(start_range, 1) \o ext_col(mid_range, 0)
                                \o ext_col(end_range, 1)
             IN  extended(gp, gp.n + 2, gp.m, splice(new_vertex_order, i, ext_path))

extend(gp, direction) ==
    CASE direction = "Right" -> extend_right(gp)
      [] direction = "Up"    -> extend_up(gp)
      [] direction = "Left"  -> extend_left(gp)
      [] direction = "Down"  -> extend_down(gp)

-----------------------------------------------------------------------------
(* src/src/gridproblem.rs: split *)

\* the last pair <<i, j>> of the scan instead of the first
scan_last(cands) ==
    CHOOSE c \in cands :
        \A d \in cands : c[1] > d[1] \/ (c[1] = d[1] /\ c[2] >= d[2])

\* the first pair <<i, j>> of the scan: for i in outer_range { for j in 0..bound }
scan_first(cands) ==
    CHOOSE c \in cands :
        \A d \in cands : c[1] < d[1] \/ (c[1] = d[1] /\ c[2] <= d[2])

\* the vertices of the candidate edge are the start or end vertices: continue
touches_endpoints(p, a_coords, b_coords) ==
    \/ a_coords = p.start_coords \/ b_coords = p.start_coords
    \/ a_coords = p.end_coords \/ b_coords = p.end_coords

can_be_split_horizontally(p) ==
    IF p.start_coords[2] = p.end_coords[2]
    THEN FALSE
    ELSE LET is_start_coords_below == p.start_coords[2] < p.end_coords[2]
             outer_range_start == IF is_start_coords_below THEN p.start_coords[2]
                                                           ELSE p.end_coords[2]
             outer_range_end == IF is_start_coords_below THEN p.end_coords[2]
                                                         ELSE p.start_coords[2]
         IN  \E i \in outer_range_start .. outer_range_end - 1 : \E j \in 0 .. p.n - 1 :
               LET lower_vertex_coords == <<j, i>>
                   upper_vertex_coords == <<j, i + 1>>
                   lower_sub_problem ==
                     IF is_start_coords_below
                     THEN GridProblem_new(p.n, upper_vertex_coords[2],
                                          p.start_coords, lower_vertex_coords)
                     ELSE GridProblem_new(p.n, upper_vertex_coords[2],
                                          lower_vertex_coords, p.end_coords)
                   upper_sub_problem ==
                     IF is_start_coords_below
                     THEN GridProblem_new(p.n, p.m - upper_vertex_coords[2],
                            <<upper_vertex_coords[1], 0>>,
                            <<p.end_coords[1], p.end_coords[2] - upper_vertex_coords[2]>>)
                     ELSE GridProblem_new(p.n, p.m - upper_vertex_coords[2],
                            <<p.start_coords[1], p.start_coords[2] - upper_vertex_coords[2]>>,
                            <<upper_vertex_coords[1], 0>>)
               IN  /\ ~touches_endpoints(p, lower_vertex_coords, upper_vertex_coords)
                   /\ is_acceptable(lower_sub_problem)
                   /\ is_acceptable(upper_sub_problem)

\* can_be_split_vertically that compares the y coordinates of s and t first
can_be_split_vertically_same_row(p) ==
    IF p.start_coords[2] = p.end_coords[2]
    THEN FALSE
    ELSE LET is_start_coords_left == p.start_coords[1] < p.end_coords[1]
             outer_range_start == IF is_start_coords_left THEN p.start_coords[1]
                                                          ELSE p.end_coords[1]
             outer_range_end == IF is_start_coords_left THEN p.end_coords[1]
                                                        ELSE p.start_coords[1]
         IN  \E i \in outer_range_start .. outer_range_end - 1 : \E j \in 0 .. p.m - 1 :
               LET left_vertex_coords == <<i, j>>
                   right_vertex_coords == <<i + 1, j>>
                   left_sub_problem ==
                     IF is_start_coords_left
                     THEN GridProblem_new(right_vertex_coords[1], p.m,
                                          p.start_coords, left_vertex_coords)
                     ELSE GridProblem_new(right_vertex_coords[1], p.m,
                                          left_vertex_coords, p.end_coords)
                   right_sub_problem ==
                     IF is_start_coords_left
                     THEN GridProblem_new(p.n - right_vertex_coords[1], p.m,
                            <<0, right_vertex_coords[2]>>,
                            <<p.end_coords[1] - right_vertex_coords[1], p.end_coords[2]>>)
                     ELSE GridProblem_new(p.n - right_vertex_coords[1], p.m,
                            <<p.start_coords[1] - right_vertex_coords[1], p.start_coords[2]>>,
                            <<0, right_vertex_coords[2]>>)
               IN  /\ ~touches_endpoints(p, left_vertex_coords, right_vertex_coords)
                   /\ is_acceptable(left_sub_problem)
                   /\ is_acceptable(right_sub_problem)

can_be_split_vertically(p) ==
    IF p.start_coords[1] = p.end_coords[1]
    THEN FALSE
    ELSE LET is_start_coords_left == p.start_coords[1] < p.end_coords[1]
             outer_range_start == IF is_start_coords_left THEN p.start_coords[1]
                                                          ELSE p.end_coords[1]
             outer_range_end == IF is_start_coords_left THEN p.end_coords[1]
                                                        ELSE p.start_coords[1]
         IN  \E i \in outer_range_start .. outer_range_end - 1 : \E j \in 0 .. p.m - 1 :
               LET left_vertex_coords == <<i, j>>
                   right_vertex_coords == <<i + 1, j>>
                   left_sub_problem ==
                     IF is_start_coords_left
                     THEN GridProblem_new(right_vertex_coords[1], p.m,
                                          p.start_coords, left_vertex_coords)
                     ELSE GridProblem_new(right_vertex_coords[1], p.m,
                                          left_vertex_coords, p.end_coords)
                   right_sub_problem ==
                     IF is_start_coords_left
                     THEN GridProblem_new(p.n - right_vertex_coords[1], p.m,
                            <<0, right_vertex_coords[2]>>,
                            <<p.end_coords[1] - right_vertex_coords[1], p.end_coords[2]>>)
                     ELSE GridProblem_new(p.n - right_vertex_coords[1], p.m,
                            <<p.start_coords[1] - right_vertex_coords[1], p.start_coords[2]>>,
                            <<0, right_vertex_coords[2]>>)
               IN  /\ ~touches_endpoints(p, left_vertex_coords, right_vertex_coords)
                   /\ is_acceptable(left_sub_problem)
                   /\ is_acceptable(right_sub_problem)

\* horizontal_sub_problems whose lower problem, s above t, runs from t to the edge
horizontal_sub_problems_swapped(p, i, j) ==
    LET is_start_coords_below == p.start_coords[2] < p.end_coords[2]
        lower_vertex_coords == <<j, i>>
        upper_vertex_coords == <<j, i + 1>>
    IN  IF is_start_coords_below
        THEN << GridProblem_new(p.n, upper_vertex_coords[2],
                                p.start_coords, lower_vertex_coords),
                GridProblem_new(p.n, p.m - upper_vertex_coords[2],
                    <<upper_vertex_coords[1], 0>>,
                    <<p.end_coords[1], p.end_coords[2] - upper_vertex_coords[2]>>) >>
        ELSE << GridProblem_new(p.n, upper_vertex_coords[2],
                                p.end_coords, lower_vertex_coords),
                GridProblem_new(p.n, p.m - upper_vertex_coords[2],
                    <<p.start_coords[1], p.start_coords[2] - upper_vertex_coords[2]>>,
                    <<upper_vertex_coords[1], 0>>) >>

\* the sub-problems split_horizontally builds for the edge [j, i] - [j, i+1]
horizontal_sub_problems(p, i, j) ==
    LET is_start_coords_below == p.start_coords[2] < p.end_coords[2]
        lower_vertex_coords == <<j, i>>
        upper_vertex_coords == <<j, i + 1>>
    IN  IF is_start_coords_below
        THEN << GridProblem_new(p.n, upper_vertex_coords[2],
                                p.start_coords, lower_vertex_coords),
                GridProblem_new(p.n, p.m - upper_vertex_coords[2],
                    <<upper_vertex_coords[1], 0>>,
                    <<p.end_coords[1], p.end_coords[2] - upper_vertex_coords[2]>>) >>
        ELSE << GridProblem_new(p.n, upper_vertex_coords[2],
                                lower_vertex_coords, p.end_coords),
                GridProblem_new(p.n, p.m - upper_vertex_coords[2],
                    <<p.start_coords[1], p.start_coords[2] - upper_vertex_coords[2]>>,
                    <<upper_vertex_coords[1], 0>>) >>

\* Some((lower_sub_problem, upper_sub_problem)) or None
split_horizontally(p) ==
    IF p.start_coords[2] = p.end_coords[2]
    THEN <<>>
    ELSE LET is_start_coords_below == p.start_coords[2] < p.end_coords[2]
             outer_range_start == IF is_start_coords_below THEN p.start_coords[2]
                                                           ELSE p.end_coords[2]
             outer_range_end == IF is_start_coords_below THEN p.end_coords[2]
                                                         ELSE p.start_coords[2]
             found == {c \in (outer_range_start .. outer_range_end - 1) \X (0 .. p.n - 1) :
                         /\ ~touches_endpoints(p, <<c[2], c[1]>>, <<c[2], c[1] + 1>>)
                         /\ is_acceptable(horizontal_sub_problems(p, c[1], c[2])[1])
                         /\ is_acceptable(horizontal_sub_problems(p, c[1], c[2])[2])}
         IN  IF found = {}
             THEN <<>>
             ELSE <<horizontal_sub_problems(p, scan_first(found)[1], scan_first(found)[2])>>

\* the sub-problems split_vertically builds for the edge [i, j] - [i+1, j]
vertical_sub_problems(p, i, j) ==
    LET is_start_coords_left == p.start_coords[1] < p.end_coords[1]
        left_vertex_coords == <<i, j>>
        right_vertex_coords == <<i + 1, j>>
    IN  IF is_start_coords_left
        THEN << GridProblem_new(right_vertex_coords[1], p.m,
                                p.start_coords, left_vertex_coords),
                GridProblem_new(p.n - right_vertex_coords[1], p.m,
                    <<0, right_vertex_coords[2]>>,
                    <<p.end_coords[1] - right_vertex_coords[1], p.end_coords[2]>>) >>
        ELSE << GridProblem_new(right_vertex_coords[1], p.m,
                                left_vertex_coords, p.end_coords),
                GridProblem_new(p.n - right_vertex_coords[1], p.m,
                    <<p.start_coords[1] - right_vertex_coords[1], p.start_coords[2]>>,
                    <<0, right_vertex_coords[2]>>) >>

\* Some((left_sub_problem, right_sub_problem)) or None
split_vertically(p) ==
    IF p.start_coords[1] = p.end_coords[1]
    THEN <<>>
    ELSE LET is_start_coords_left == p.start_coords[1] < p.end_coords[1]
             outer_range_start == IF is_start_coords_left THEN p.start_coords[1]
                                                          ELSE p.end_coords[1]
             outer_range_end == IF is_start_coords_left THEN p.end_coords[1]
                                                        ELSE p.start_coords[1]
             found == {c \in (outer_range_start .. outer_range_end - 1) \X (0 .. p.m - 1) :
                         /\ ~touches_endpoints(p, <<c[1], c[2]>>, <<c[1] + 1, c[2]>>)
                         /\ is_acceptable(vertical_sub_problems(p, c[1], c[2])[1])
                         /\ is_acceptable(vertical_sub_problems(p, c[1], c[2])[2])}
         IN  IF found = {}
             THEN <<>>
             ELSE <<vertical_sub_problems(p, scan_first(found)[1], scan_first(found)[2])>>

\* the path solve builds when a dimension is 1
line_path(width, height, start_coords) ==
    LET is_width == width = 1
        bound == IF is_width THEN height ELSE width
        range == IF is_width /\ start_coords[2] # 0 THEN RevRange(0, bound)
                 ELSE IF ~is_width /\ start_coords[1] # 0 THEN RevRange(0, bound)
                 ELSE Range(0, bound)
    IN  [k \in 1 .. Len(range) |-> IF is_width THEN <<0, range[k]>> ELSE <<range[k], 0>>]

-----------------------------------------------------------------------------
(* src/src/gridproblem.rs: solve, one frame of the stack per call *)

\* A call of solve: p is the GridProblem (self), entry is p as it was when
\* solve was called, pc the position in solve, solution the local of that
\* name, k the index of the next extension extend_many applies, sub the pair
\* of sub-problems of a split, first the solution of the first of them, and
\* ret the value returned once pc is "done".
Frame(p) ==
    [p |-> p, entry |-> p, pc |-> "start", solution |-> <<>>, k |-> 1,
     sub |-> <<>>, first |-> <<>>, ret |-> <<>>]

top == stack[Len(stack)]
caller == stack[Len(stack) - 1]
running == panic = "" /\ Len(stack) >= 1

\* the stack with its innermost frame replaced
with_top(f) == [stack EXCEPT ![Len(stack)] = f]

\* the stack with the innermost frame popped and the caller's frame replaced
with_caller(f) == [SubSeq(stack, 1, Len(stack) - 1) EXCEPT ![Len(stack) - 1] = f]

idle_strip == UNCHANGED <<problem, original, replayed>>
idle_extend == UNCHANGED <<path, before>>
idle_lookup == UNCHANGED <<query, answer>>
idle_solve == UNCHANGED <<stack, panic>>

\* if !self.is_acceptable() { return None; }
Enter ==
    /\ running /\ top.pc = "start"
    /\ stack' = IF ~is_acceptable(top.p)
                THEN with_top([top EXCEPT !.pc = "done", !.ret = <<>>])
                ELSE with_top([top EXCEPT !.pc = "strip"])
    /\ UNCHANGED <<panic, lastOp>>
    /\ idle_strip /\ idle_extend /\ idle_lookup

\* loop { if !self.strip() { break; } }: one iteration
Strip ==
    /\ running /\ top.pc = "strip"
    /\ stack' = IF strip(top.p).ok
                THEN with_top([top EXCEPT !.p = strip(top.p).p])
                ELSE with_top([top EXCEPT !.pc = "reduce"])
    /\ UNCHANGED <<panic, lastOp>>
    /\ idle_strip /\ idle_extend /\ idle_lookup

\* if GridPath::is_prime(..) { solution = GridPath::get_prime(..); continue; }
Prime ==
    /\ running /\ top.pc = "reduce"
    /\ is_prime(top.p.n, top.p.m, top.p.start_coords, top.p.end_coords)
    /\ LET found == get_prime(top.p.n, top.p.m, top.p.start_coords, top.p.end_coords)
       IN  IF found # <<>> /\ graph_index_out_of_bounds(found[1].n, found[1].m,
                                                        found[1].vertex_order)
           THEN /\ panic' = "GraphIndex"
                /\ UNCHANGED stack
           ELSE /\ stack' = with_top([top EXCEPT !.solution = found,
                                  !.pc = IF found = <<>> THEN "strip" ELSE "extend"])
                /\ UNCHANGED panic
    /\ UNCHANGED lastOp
    /\ idle_strip /\ idle_extend /\ idle_lookup

\* if self.can_be_split_horizontally() { .. self.split_horizontally().unwrap();
\* p_below.solve() ..
SplitHorizontally ==
    /\ running /\ top.pc = "reduce"
    /\ ~is_prime(top.p.n, top.p.m, top.p.start_coords, top.p.end_coords)
    /\ can_be_split_horizontally(top.p)
    /\ LET halves == split_horizontally(top.p)
       IN  IF halves = <<>>
           THEN /\ panic' = "Unwrap"
                /\ UNCHANGED stack
           ELSE /\ stack' = Append(with_top([top EXCEPT !.sub = halves[1], !.pc = "below"]),
                                   Frame(halves[1][1]))
                /\ UNCHANGED panic
    /\ UNCHANGED lastOp
    /\ idle_strip /\ idle_extend /\ idle_lookup

\* p_below.solve().unwrap(); p_above.solve() ..
BelowSolved ==
    /\ running /\ Len(stack) >= 2 /\ top.pc = "done" /\ caller.pc = "below"
    /\ IF top.ret = <<>>
       THEN /\ panic' = "Unwrap"
            /\ UNCHANGED stack
       ELSE /\ stack' = Append(with_caller([caller EXCEPT !.sub[1] = top.p,
                                                         !.first = top.ret,
                                                         !.pc = "above"]),
                               Frame(caller.sub[2]))
            /\ UNCHANGED panic
    /\ UNCHANGED lastOp
    /\ idle_strip /\ idle_extend /\ idle_lookup

\* p_above.solve().unwrap(); the join; solution = Some(solution_path); continue;
AboveSolved ==
    /\ running /\ Len(stack) >= 2 /\ top.pc = "done" /\ caller.pc = "above"
    /\ IF top.ret = <<>>
       THEN /\ panic' = "Unwrap"
            /\ UNCHANGED stack
       ELSE LET p_below == caller.sub[1]
                p_above == top.p
                vertex_order ==
                    caller.first[1].vertex_order
                    \o get_up_shift_vertex_order(top.ret[1].vertex_order, p_below.m)
            IN  IF graph_index_out_of_bounds(p_below.n, p_below.m + p_above.m, vertex_order)
                THEN /\ panic' = "GraphIndex"
                     /\ UNCHANGED stack
                ELSE /\ stack' = with_caller([caller EXCEPT
                            !.sub[2] = top.p,
                            !.solution = <<GridPath_new(p_below.n, p_below.m + p_above.m,
                                                        vertex_order)>>,
                            !.pc = "extend"])
                     /\ UNCHANGED panic
    /\ UNCHANGED lastOp
    /\ idle_strip /\ idle_extend /\ idle_lookup

\* if self.can_be_split_vertically() { .. self.split_vertically().unwrap();
\* p_left.solve() ..
SplitVertically ==
    /\ running /\ top.pc = "reduce"
    /\ ~is_prime(top.p.n, top.p.m, top.p.start_coords, top.p.end_coords)
    /\ ~can_be_split_horizontally(top.p)
    /\ can_be_split_vertically(top.p)
    /\ LET halves == split_vertically(top.p)
       IN  IF halves = <<>>
           THEN /\ panic' = "Unwrap"
                /\ UNCHANGED stack
           ELSE /\ stack' = Append(with_top([top EXCEPT !.sub = halves[1], !.pc = "left"]),
                                   Frame(halves[1][1]))
                /\ UNCHANGED panic
    /\ UNCHANGED lastOp
    /\ idle_strip /\ idle_extend /\ idle_lookup

\* p_left.solve().unwrap(); p_right.solve() ..
LeftSolved ==
    /\ running /\ Len(stack) >= 2 /\ top.pc = "done" /\ caller.pc = "left"
    /\ IF top.ret = <<>>
       THEN /\ panic' = "Unwrap"
            /\ UNCHANGED stack
       ELSE /\ stack' = Append(with_caller([caller EXCEPT !.sub[1] = top.p,
                                                         !.first = top.ret,
                                                         !.pc = "right"]),
                               Frame(caller.sub[2]))
            /\ UNCHANGED panic
    /\ UNCHANGED lastOp
    /\ idle_strip /\ idle_extend /\ idle_lookup

\* p_right.solve().unwrap(); the join; solution = Some(solution_path); continue;
RightSolved ==
    /\ running /\ Len(stack) >= 2 /\ top.pc = "done" /\ caller.pc = "right"
    /\ IF top.ret = <<>>
       THEN /\ panic' = "Unwrap"
            /\ UNCHANGED stack
       ELSE LET p_left == caller.sub[1]
                p_right == top.p
                vertex_order ==
                    caller.first[1].vertex_order
                    \o get_right_shift_vertex_order(top.ret[1].vertex_order, p_left.n)
            IN  IF graph_index_out_of_bounds(p_left.n + p_right.n, p_left.m, vertex_order)
                THEN /\ panic' = "GraphIndex"
                     /\ UNCHANGED stack
                ELSE /\ stack' = with_caller([caller EXCEPT
                            !.sub[2] = top.p,
                            !.solution = <<GridPath_new(p_left.n + p_right.n, p_left.m,
                                                        vertex_order)>>,
                            !.pc = "extend"])
                     /\ UNCHANGED panic
    /\ UNCHANGED lastOp
    /\ idle_strip /\ idle_extend /\ idle_lookup

\* if width == 1 || height == 1 { .. solution = Some(GridPath::new(..)); continue; }
\* and otherwise the panic that ends solve
Line ==
    /\ running /\ top.pc = "reduce"
    /\ ~is_prime(top.p.n, top.p.m, top.p.start_coords, top.p.end_coords)
    /\ ~can_be_split_horizontally(top.p)
    /\ ~can_be_split_vertically(top.p)
    /\ LET width == top.p.n
           height == top.p.m
           line == line_path(width, height, top.p.start_coords)
       IN  IF width = 1 \/ height = 1
           THEN IF graph_index_out_of_bounds(width, height, line)
                THEN /\ panic' = "GraphIndex"
                     /\ UNCHANGED stack
                ELSE /\ stack' = with_top([top EXCEPT
                            !.solution = <<GridPath_new(width, height, line)>>,
                            !.pc = "extend"])
                     /\ UNCHANGED panic
           ELSE /\ panic' = "Unsolvable"
                /\ UNCHANGED stack
    /\ UNCHANGED lastOp
    /\ idle_strip /\ idle_extend /\ idle_lookup

\* solution_path.extend_many(&self.extensions): one extension
Extend ==
    /\ running /\ top.pc = "extend" /\ top.k <= Len(top.p.extensions)
    /\ LET done == extend(top.solution[1], top.p.extensions[top.k])
       IN  IF done.fail # ""
           THEN /\ panic' = done.fail
                /\ UNCHANGED stack
           ELSE /\ stack' = with_top([top EXCEPT !.solution = <<done.gp>>, !.k = @ + 1])
                /\ UNCHANGED panic
    /\ UNCHANGED lastOp
    /\ idle_strip /\ idle_extend /\ idle_lookup

\* self.reconstruct(); return Some(solution_path);
Return ==
    /\ running /\ top.pc = "extend" /\ top.k > Len(top.p.extensions)
    /\ stack' = with_top([top EXCEPT !.p = reconstruct(top.p),
                                     !.ret = top.solution,
                                     !.pc = "done"])
    /\ UNCHANGED <<panic, lastOp>>
    /\ idle_strip /\ idle_extend /\ idle_lookup

\* the problems GridProblem::new constructs on the bounded grids
Problems ==
    {GridProblem_new(n, m, s, t) :
        <<n, m, s, t>> \in {q \in (1 .. MaxWidth) \X (1 .. MaxHeight)
                                  \X Coords(MaxWidth, MaxHeight)
                                  \X Coords(MaxWidth, MaxHeight) :
                               ~new_out_of_bounds(q[1], q[2], q[3], q[4])}}

\* the larger problem of the specification's strip-and-replay scenario
Scenarios == {GridProblem_new(8, 9, <<3, 3>>, <<2, 3>>)}

NoProblem == GridProblem_new(1, 1, <<0, 0>>, <<0, 0>>)
NoPath == GridPath_new(1, 1, << <<0, 0>> >>)

Init ==
    /\ \E p \in Problems \cup Scenarios : stack = <<Frame(p)>>
    /\ panic = ""
    /\ problem = NoProblem /\ original = NoProblem /\ replayed = <<>>
    /\ path = NoPath /\ before = NoPath
    /\ query = <<>> /\ answer = <<>>
    /\ lastOp = "solve"

Next ==
    \/ Enter \/ Strip \/ Prime
    \/ SplitHorizontally \/ BelowSolved \/ AboveSolved
    \/ SplitVertically \/ LeftSolved \/ RightSolved
    \/ Line \/ Extend \/ Return

Spec == Init /\ [][Next]_vars

\* the number of vertices of a problem's grid
area(p) == p.n * p.m

InitFair ==
    /\ \E p \in {q \in Problems : /\ area(q) <= MaxFairArea
                                   /\ q.n <= MaxFairDim /\ q.m <= MaxFairDim} :
         stack = <<Frame(p)>>
    /\ panic = ""
    /\ problem = NoProblem /\ original = NoProblem /\ replayed = <<>>
    /\ path = NoPath /\ before = NoPath
    /\ query = <<>> /\ answer = <<>>
    /\ lastOp = "solve"

\* solve is sequential code: the call in progress takes its next step
SpecFair == InitFair /\ [][Next]_vars /\ WF_vars(Next)

-----------------------------------------------------------------------------
(* Strip and reconstruct, applied in any order to a GridProblem *)

\* a strip, whole: the problem afterwards and the boolean it returned
Stripped(done, name) ==
    /\ problem' = done.p
    /\ answer' = <<done.ok>>
    /\ lastOp' = name
    /\ UNCHANGED <<original, replayed>>
    /\ idle_solve /\ idle_extend /\ UNCHANGED query

StripRight == Stripped(strip_right(problem), "strip_right")
StripUp == Stripped(strip_up(problem), "strip_up")
StripLeft == Stripped(strip_left(problem), "strip_left")
StripDown == Stripped(strip_down(problem), "strip_down")
StripAny == Stripped(strip(problem), "strip")

Reconstruct ==
    /\ problem' = reconstruct(problem)
    /\ replayed' = problem.extensions
    /\ answer' = <<>>
    /\ lastOp' = "reconstruct"
    /\ UNCHANGED original
    /\ idle_solve /\ idle_extend /\ UNCHANGED query

InitStrip ==
    /\ problem \in Problems
    /\ original = problem
    /\ replayed = <<>>
    /\ lastOp = "new"
    /\ answer = <<>>
    /\ stack = <<>> /\ panic = ""
    /\ path = NoPath /\ before = NoPath
    /\ query = <<>>

NextStrip ==
    StripRight \/ StripUp \/ StripLeft \/ StripDown \/ StripAny \/ Reconstruct

SpecStrip == InitStrip /\ [][NextStrip]_vars

-----------------------------------------------------------------------------
(* The extensions, applied to the paths of small rectangles *)

adjacent(v, w) ==
    (IF v[1] > w[1] THEN v[1] - w[1] ELSE w[1] - v[1])
    + (IF v[2] > w[2] THEN v[2] - w[2] ELSE w[2] - v[2]) = 1

\* invariants 1 to 3 of a path: consecutive vertices adjacent, no vertex
\* repeated, every vertex inside the n by m rectangle
IsValidPath(n, m, vertex_order) ==
    /\ \A k \in 1 .. Len(vertex_order) : vertex_order[k] \in Coords(n, m)
    /\ \A k \in 2 .. Len(vertex_order) : adjacent(vertex_order[k - 1], vertex_order[k])
    /\ \A k, l \in 1 .. Len(vertex_order) : k # l => vertex_order[k] # vertex_order[l]

\* a valid path that covers the rectangle
IsHamiltonianPath(n, m, vertex_order) ==
    /\ Len(vertex_order) = n * m
    /\ IsValidPath(n, m, vertex_order)

\* the valid paths of k vertices in the n by m rectangle
RECURSIVE ValidPaths(_, _, _)
ValidPaths(n, m, k) ==
    IF k = 1
    THEN {<<v>> : v \in Coords(n, m)}
    ELSE UNION { {Append(vo, v) : v \in {w \in Coords(n, m) :
                                            /\ adjacent(vo[Len(vo)], w)
                                            /\ \A l \in 1 .. Len(vo) : vo[l] # w}} :
                 vo \in ValidPaths(n, m, k - 1) }

\* extend, whole: the path afterwards and "" or the panic that ended it
Extended(direction) ==
    /\ Len(replayed) < MaxExtends
    /\ answer = <<"">>
    /\ LET done == extend(path, direction)
       IN  /\ path' = done.gp
           /\ answer' = <<done.fail>>
    /\ before' = path
    /\ lastOp' = direction
    /\ replayed' = Append(replayed, direction)
    /\ idle_solve /\ UNCHANGED <<problem, original, query>>

ExtendRight == Extended("Right")
ExtendUp == Extended("Up")
ExtendLeft == Extended("Left")
ExtendDown == Extended("Down")

InitExtend ==
    /\ \E n \in 1 .. MaxPathDim, m \in 1 .. MaxPathDim :
         \E k \in 1 .. (IF n * m <= MaxPathArea THEN n * m ELSE 0) :
           \E vo \in ValidPaths(n, m, k) : path = GridPath_new(n, m, vo)
    /\ before = path
    /\ replayed = <<>>
    /\ lastOp = "new"
    /\ answer = <<"">>
    /\ stack = <<>> /\ panic = ""
    /\ problem = NoProblem /\ original = NoProblem
    /\ query = <<>>

NextExtend == ExtendRight \/ ExtendUp \/ ExtendLeft \/ ExtendDown

SpecExtend == InitExtend /\ [][NextExtend]_vars

-----------------------------------------------------------------------------
(* The prime table looked up for every dimension and pair of endpoints *)

IsPrime ==
    /\ lastOp = "new"
    /\ answer' = <<is_prime(query[1], query[2], query[3], query[4])>>
    /\ lastOp' = "is_prime"
    /\ UNCHANGED <<query, panic, stack>>
    /\ idle_strip /\ idle_extend

GetPrime ==
    /\ lastOp = "new"
    /\ LET found == get_prime(query[1], query[2], query[3], query[4])
       IN  IF found # <<>> /\ graph_index_out_of_bounds(found[1].n, found[1].m,
                                                        found[1].vertex_order)
           THEN /\ panic' = "GraphIndex"
                /\ answer' = <<>>
           ELSE /\ answer' = found
                /\ UNCHANGED panic
    /\ lastOp' = "get_prime"
    /\ UNCHANGED <<query, stack>>
    /\ idle_strip /\ idle_extend

InitPrime ==
    /\ query \in (1 .. MaxWidth) \X (1 .. MaxHeight)
                 \X Coords(MaxWidth, MaxHeight) \X Coords(MaxWidth, MaxHeight)
    /\ lastOp = "new"
    /\ answer = <<>>
    /\ stack = <<>> /\ panic = ""
    /\ problem = NoProblem /\ original = NoProblem /\ replayed = <<>>
    /\ path = NoPath /\ before = NoPath

NextPrime == IsPrime \/ GetPrime

SpecPrime == InitPrime /\ [][NextPrime]_vars

-----------------------------------------------------------------------------
(* Exhaustive search for the Hamiltonian paths of the grid graph G(n, m) *)

neighbours(n, m, v) == {w \in Coords(n, m) : adjacent(v, w)}

\* the vertices at which a Hamiltonian path can end that has visited
\* `visited` and stands at v
RECURSIVE hamiltonian_ends(_, _, _, _)
hamiltonian_ends(n, m, v, visited) ==
    IF Cardinality(visited) = n * m
    THEN {v}
    ELSE UNION {hamiltonian_ends(n, m, w, visited \cup {w}) :
                    w \in neighbours(n, m, v) \ visited}

\* is_acceptable for every end vertex, beside the search from the start vertex
Search ==
    /\ lastOp = "new"
    /\ answer' = << hamiltonian_ends(query[1], query[2], query[3], {query[3]}),
                    {t \in Coords(query[1], query[2]) \ {query[3]} :
                        is_acceptable(GridProblem_new(query[1], query[2], query[3], t))} >>
    /\ lastOp' = "search"
    /\ UNCHANGED <<query, panic, stack>>
    /\ idle_strip /\ idle_extend

InitSearch ==
    /\ \E n \in 1 .. MaxSearchDim, m \in 1 .. MaxSearchDim :
         /\ n * m <= MaxSearchArea
         /\ \E s \in Coords(n, m) : query = <<n, m, s>>
    /\ lastOp = "new"
    /\ answer = <<>>
    /\ stack = <<>> /\ panic = ""
    /\ problem = NoProblem /\ original = NoProblem /\ replayed = <<>>
    /\ path = NoPath /\ before = NoPath

NextSearch == Search

SpecSearch == InitSearch /\ [][NextSearch]_vars

-----------------------------------------------------------------------------
(* Construction of a GridProblem from its arguments, and the call of solve *)

\* GridProblem::new(width, height, start_coords, end_coords)
New ==
    /\ lastOp = "arguments"
    /\ IF new_out_of_bounds(query[1], query[2], query[3], query[4])
       THEN /\ panic' = "OutOfBounds"
            /\ UNCHANGED problem
       ELSE /\ problem' = GridProblem_new(query[1], query[2], query[3], query[4])
            /\ UNCHANGED panic
    /\ lastOp' = "GridProblem::new"
    /\ UNCHANGED <<stack, original, replayed, query, answer>>
    /\ idle_extend

\* problem.solve() in main
Call ==
    /\ lastOp = "GridProblem::new" /\ panic = ""
    /\ stack' = <<Frame(problem)>>
    /\ lastOp' = "solve"
    /\ UNCHANGED panic
    /\ idle_strip /\ idle_extend /\ idle_lookup

InitNew ==
    /\ query \in (0 .. MaxNewDim) \X (0 .. MaxNewDim)
                    \X Coords(MaxNewDim + 1, MaxNewDim + 1)
                    \X Coords(MaxNewDim + 1, MaxNewDim + 1)
    /\ lastOp = "arguments"
    /\ answer = <<>>
    /\ stack = <<>> /\ panic = ""
    /\ problem = NoProblem /\ original = NoProblem /\ replayed = <<>>
    /\ path = NoPath /\ before = NoPath

NextNew == New \/ Call

SpecNew == InitNew /\ [][NextNew]_vars

-----------------------------------------------------------------------------
(* The predicates of a GridGraph applied to a pair of vertices *)

\* one public predicate of GridGraph applied to the vertices of the query
Asked(name, result) ==
    /\ lastOp = "graph"
    /\ IF out_of_bounds(query[1], query[2], query[3])
          \/ out_of_bounds(query[1], query[2], query[4])
       THEN /\ panic' = "OutOfBounds"
            /\ UNCHANGED answer
       ELSE /\ answer' = <<result>>
            /\ UNCHANGED panic
    /\ lastOp' = name
    /\ UNCHANGED <<query, stack>>
    /\ idle_strip /\ idle_extend

AreColorCompatible ==
    Asked("are_color_compatible",
          are_color_compatible(query[1], query[2], query[3], query[4]))

IsForbidden ==
    Asked("is_forbidden", is_forbidden(query[1], query[2], query[3], query[4]))

InitGraph ==
    /\ \E n \in 1 .. MaxGraphDim, m \in 1 .. MaxGraphDim :
          \E v_coords, w_coords \in Coords(n + 1, m + 1) :
             query = <<n, m, v_coords, w_coords>>
    /\ lastOp = "graph"
    /\ answer = <<>>
    /\ stack = <<>> /\ panic = ""
    /\ problem = NoProblem /\ original = NoProblem /\ replayed = <<>>
    /\ path = NoPath /\ before = NoPath

NextGraph == AreColorCompatible \/ IsForbidden

SpecGraph == InitGraph /\ [][NextGraph]_vars

-----------------------------------------------------------------------------
(* Construction of a GridPath from dimensions and a vertex order *)

\* GridPath::new(n, m, vertex_order)
NewPath ==
    /\ lastOp = "arguments"
    /\ IF graph_index_out_of_bounds(query[1], query[2], query[3])
       THEN /\ panic' = "GraphIndex"
            /\ UNCHANGED path
       ELSE /\ path' = GridPath_new(query[1], query[2], query[3])
            /\ UNCHANGED panic
    /\ lastOp' = "GridPath::new"
    /\ UNCHANGED <<stack, before, query, answer>>
    /\ idle_strip

InitPath ==
    /\ \E n \in 1 .. MaxOrderDim, m \in 1 .. MaxOrderDim :
          \E vertex_order \in UNION {[1 .. k -> Coords(n + 1, m + 1)] :
                                        k \in 0 .. MaxOrderLen} :
             query = <<n, m, vertex_order>>
    /\ lastOp = "arguments"
    /\ answer = <<>>
    /\ stack = <<>> /\ panic = ""
    /\ problem = NoProblem /\ original = NoProblem /\ replayed = <<>>
    /\ path = NoPath /\ before = NoPath

NextPath == NewPath

SpecPath == InitPath /\ [][NextPath]_vars

-----------------------------------------------------------------------------
(* The splits asked of every problem on the bounded grids *)

\* a &self method of the GridProblem is called and its result read
AskedOfProblem(name, result) ==
    /\ answer' = <<result>>
    /\ lastOp' = name
    /\ UNCHANGED <<problem, original, replayed, query>>
    /\ idle_solve /\ idle_extend

CanBeSplitHorizontally ==
    AskedOfProblem("can_be_split_horizontally", can_be_split_horizontally(problem))
CanBeSplitVertically ==
    AskedOfProblem("can_be_split_vertically", can_be_split_vertically(problem))
HorizontalSplit == AskedOfProblem("split_horizontally", split_horizontally(problem))
VerticalSplit == AskedOfProblem("split_vertically", split_vertically(problem))

InitSplit ==
    /\ problem \in Problems
    /\ original = problem
    /\ replayed = <<>>
    /\ lastOp = "new"
    /\ answer = <<>>
    /\ stack = <<>> /\ panic = ""
    /\ path = NoPath /\ before = NoPath
    /\ query = <<>>

NextSplit ==
    CanBeSplitHorizontally \/ CanBeSplitVertically \/ HorizontalSplit \/ VerticalSplit

SpecSplit == InitSplit /\ [][NextSplit]_vars

-----------------------------------------------------------------------------
(* The claims *)

\* a call of solve that has returned
returned(f) == f.pc = "done"

\* the outermost call of solve has returned
Finished == panic = "" /\ Len(stack) = 1 /\ returned(stack[1])

frames == {stack[i] : i \in 1 .. Len(stack)}

\* C1: every path solve returns is a Hamiltonian path of the n by m grid, from
\* the start vertex to the end vertex: n * m vertices, all inside the grid,
\* none repeated, consecutive ones adjacent, the first s and the last t.
C1_ReturnedPathIsHamiltonian ==
    \A f \in frames :
        returned(f) /\ f.ret # <<>> =>
            LET V == f.ret[1].vertex_order
            IN  /\ IsHamiltonianPath(f.entry.n, f.entry.m, V)
                /\ V[1] = f.entry.start_coords
                /\ V[Len(V)] = f.entry.end_coords

\* C2: solve returns some path if and only if the problem is color compatible
\* and not forbidden, it returns none exactly when the problem is unacceptable,
\* and it never ends in a panic for an acceptable problem.
C2_SomeIffAcceptable ==
    /\ panic = ""
    /\ \A f \in frames :
          returned(f) =>
             (f.ret # <<>> <=>
                 /\ are_color_compatible(f.entry.n, f.entry.m,
                                         f.entry.start_coords, f.entry.end_coords)
                 /\ ~is_forbidden(f.entry.n, f.entry.m,
                                  f.entry.start_coords, f.entry.end_coords))

\* C3: is_acceptable is true if and only if the grid graph has a Hamiltonian
\* path from s to t, the exhaustive search being the reference.
C3_AcceptableIffHamiltonian ==
    lastOp = "search" =>
        \A t \in Coords(query[1], query[2]) \ {query[3]} :
            t \in answer[2] <=> t \in answer[1]

\* C3 witness: a searched grid with an acceptable end vertex that the search
\* reaches and an unacceptable one that it does not reach.
C3_Witness ==
    /\ lastOp = "search"
    /\ query[1] >= 3 /\ query[2] >= 3
    /\ \E t, u \in Coords(query[1], query[2]) \ {query[3]} :
          /\ t \in answer[1] /\ t \in answer[2]
          /\ u \notin answer[1] /\ u \notin answer[2]
          /\ are_color_compatible(query[1], query[2], query[3], u)

\* C4: whenever solve returns, with a path or with none, the problem's width,
\* height, start and end coordinates are those of before the call and its
\* extensions are empty; so it is for the sub-problems of a split.
C4_SolveRestoresProblem ==
    \A f \in frames :
        returned(f) =>
            /\ f.p.n = f.entry.n /\ f.p.m = f.entry.m
            /\ f.p.start_coords = f.entry.start_coords
            /\ f.p.end_coords = f.entry.end_coords
            /\ f.p.extensions = <<>>

\* C4 witness: a sub-problem of a split has returned a path after it was
\* stripped and its extensions were replayed.
C4_Witness ==
    /\ Len(stack) >= 2
    /\ returned(top) /\ top.ret # <<>> /\ top.k > 1
    /\ top.p.start_coords[1] >= 2 /\ top.p.start_coords[2] >= 2

\* C5: after any sequence of strips of an acceptable problem whose extensions
\* were empty, reconstruct restores the original n, m, s and t and leaves the
\* extensions empty.
C5_ReconstructRoundTrip ==
    lastOp = "reconstruct" /\ is_acceptable(original) =>
        /\ problem.n = original.n /\ problem.m = original.m
        /\ problem.start_coords = original.start_coords
        /\ problem.end_coords = original.end_coords
        /\ problem.extensions = <<>>

\* C5 witness: reconstruct has undone strips of an acceptable problem, a left
\* and a down strip among them.
C5_Witness ==
    /\ lastOp = "reconstruct" /\ is_acceptable(original)
    /\ Len(replayed) >= 2
    /\ \E k, l \in 1 .. Len(replayed) : replayed[k] = "Left" /\ replayed[l] = "Down"

StripOps == {"strip_right", "strip_up", "strip_left", "strip_down", "strip"}

\* C6: when a strip returns true the problem in its resulting state is
\* acceptable, and a problem that was acceptable is still acceptable after any
\* sequence of strips.
C6_StripKeepsAcceptable ==
    /\ lastOp \in StripOps /\ answer = <<TRUE>> => is_acceptable(problem)
    /\ lastOp \in StripOps /\ is_acceptable(original) => is_acceptable(problem)

\* C6 witness: a left strip has succeeded after another strip.
C6_Witness ==
    /\ lastOp = "strip_left" /\ answer = <<TRUE>>
    /\ Len(problem.extensions) >= 2
    /\ is_acceptable(problem)

\* C7: after extend(d) of a valid path the dimensions have grown by exactly 2
\* in the axis of d and not in the other axis, and the vertex order has grown
\* by exactly twice the other dimension.
C7_ExtendGrowsByBand ==
    lastOp \in GridExtension /\ answer = <<"">>
    /\ IsValidPath(before.n, before.m, before.vertex_order) =>
        IF lastOp \in {"Left", "Right"}
        THEN /\ path.n = before.n + 2 /\ path.m = before.m
             /\ Len(path.vertex_order) = Len(before.vertex_order) + 2 * before.m
        ELSE /\ path.m = before.m + 2 /\ path.n = before.n
             /\ Len(path.vertex_order) = Len(before.vertex_order) + 2 * before.n

\* the two extreme vertices of the line that a grid with n = 1 or m = 1 is
line_ends(n, m) == {<<0, 0>>, <<n - 1, m - 1>>}

\* the vertices of that line in order from s to the other end
straight_line(n, m, s) ==
    [k \in 1 .. n * m |->
        IF n = 1 THEN <<0, IF s[2] = 0 THEN k - 1 ELSE m - k>>
                 ELSE <<IF s[1] = 0 THEN k - 1 ELSE n - k, 0>>]

\* C8: on a grid with n = 1 or m = 1 solve succeeds if and only if s and t are
\* the two extreme vertices of the line, and then it returns the straight line
\* from s to t.
C8_LineSolvedStraight ==
    \A f \in frames :
        returned(f) /\ (f.entry.n = 1 \/ f.entry.m = 1) =>
            /\ f.ret # <<>> <=>
                  {f.entry.start_coords, f.entry.end_coords}
                      = line_ends(f.entry.n, f.entry.m)
            /\ f.ret # <<>> =>
                  f.ret[1].vertex_order
                      = straight_line(f.entry.n, f.entry.m, f.entry.start_coords)

\* the stored sequences for n, m with first vertex s and last vertex t, by
\* their place <<element, path>> in the table
stored(n, m, s, t) ==
    UNION { {<<k, l>> : l \in {j \in 1 .. Len(PRIME_SOLUTION_JSON[k].paths) :
                LET prime_path == PRIME_SOLUTION_JSON[k].paths[j]
                IN  prime_path[1] = s /\ prime_path[Len(prime_path)] = t}} :
            k \in {i \in 1 .. Len(PRIME_SOLUTION_JSON) :
                     PRIME_SOLUTION_JSON[i].n = n /\ PRIME_SOLUTION_JSON[i].m = m} }

first_stored(n, m, s, t) ==
    PRIME_SOLUTION_JSON[scan_first(stored(n, m, s, t))[1]]
        .paths[scan_first(stored(n, m, s, t))[2]]

\* C9: for every n, m, s, t for which the prime table stores a path, solve
\* returns exactly the first stored sequence with these endpoints.
C9_SolveReturnsStoredPath ==
    \A i \in 1 .. Len(stack) :
        LET e == stack[i].entry
        IN  stored(e.n, e.m, e.start_coords, e.end_coords) # {} =>
              /\ i = Len(stack) => panic = ""
              /\ returned(stack[i]) =>
                   /\ stack[i].ret # <<>>
                   /\ stack[i].ret[1].vertex_order
                        = first_stored(e.n, e.m, e.start_coords, e.end_coords)

\* C10: every path stored in the prime table under the dimensions n, m is a
\* Hamiltonian path of the n by m grid.
C10_StoredPathsAreHamiltonian ==
    \A k \in 1 .. Len(PRIME_SOLUTION_JSON) :
        PRIME_SOLUTION_JSON[k].n = query[1] /\ PRIME_SOLUTION_JSON[k].m = query[2] =>
            \A l \in 1 .. Len(PRIME_SOLUTION_JSON[k].paths) :
                IsHamiltonianPath(PRIME_SOLUTION_JSON[k].n, PRIME_SOLUTION_JSON[k].m,
                                  PRIME_SOLUTION_JSON[k].paths[l])

\* C11: no GridProblem with start_coords equal to end_coords is ever
\* constructed, and solve is never run on one.
C11_EndpointsDistinct ==
    /\ lastOp = "GridProblem::new" /\ panic = "" =>
           problem.start_coords # problem.end_coords
    /\ \A f \in frames : f.entry.start_coords # f.entry.end_coords

\* C12: GridProblem::new fails with the out-of-bounds panic if and only if
\* some endpoint has x >= width or y >= height; every other pair of endpoints,
\* corners included, yields the problem of these arguments with no extensions.
C12_NewOutOfBoundsIff ==
    lastOp = "GridProblem::new" =>
        LET width == query[1]
            height == query[2]
            outside(c) == c[1] >= width \/ c[2] >= height
        IN  /\ panic \in {"", "OutOfBounds"}
            /\ panic = "OutOfBounds" <=> outside(query[3]) \/ outside(query[4])
            /\ panic = "" =>
                  problem = [n |-> width, m |-> height, extensions |-> <<>>,
                             start_coords |-> query[3], end_coords |-> query[4]]

\* C12 witness: new has accepted two corner vertices of a grid, one of them
\* the corner farthest from the origin.
C12_Witness ==
    /\ lastOp = "GridProblem::new" /\ panic = ""
    /\ query[1] >= 2 /\ query[2] >= 2
    /\ query[3] = <<query[1] - 1, query[2] - 1>>
    /\ query[4] = <<0, query[2] - 1>>
    /\ problem.extensions = <<>>

C15_TwoWideForbidden ==
    lastOp = "is_forbidden" /\ panic = ""
    /\ (query[1] = 2 \/ query[2] = 2) /\ query[1] # 1 /\ query[2] # 1 =>
        LET n == query[1]
            m == query[2]
            v == query[3]
            w == query[4]
            corners == {<<0, 0>>, <<n - 1, 0>>, <<0, m - 1>>, <<n - 1, m - 1>>}
        IN  answer[1] <=>
               /\ v \notin corners /\ w \notin corners
               /\ IF n = 2 THEN v[2] = w[2] ELSE v[1] = w[1]

\* C15 witness: two distinct vertices of a grid of height 2, neither a corner,
\* in the same column, were found forbidden.
C15_Witness ==
    /\ lastOp = "is_forbidden" /\ panic = ""
    /\ query[2] = 2 /\ query[1] >= 3
    /\ query[3] # query[4] /\ query[3][1] = query[4][1]
    /\ answer = <<TRUE>>

\* C16: on a grid whose smaller dimension is 3, with thick dimension L, and
\* for in-bounds v and w, is_forbidden is true if and only if L is even, v and
\* w differ in parity, the distance d = |a - b| of their thick coordinates is
\* above 1 (above 0 when the thin coordinate u of v is 1), and the parity of v
\* is not 1 when a > b and not 0 when a <= b.
C16_ThreeWideForbidden ==
    lastOp = "is_forbidden" /\ panic = ""
    /\ (query[1] = 3 \/ query[2] = 3) /\ query[1] \notin {1, 2} /\ query[2] \notin {1, 2} =>
        LET n == query[1]
            m == query[2]
            v == query[3]
            w == query[4]
            L == IF n = 3 THEN m ELSE n
            a == IF n = 3 THEN v[2] ELSE v[1]
            b == IF n = 3 THEN w[2] ELSE w[1]
            u == IF n = 3 THEN v[1] ELSE v[2]
            d == IF a > b THEN a - b ELSE b - a
        IN  answer[1] <=>
               /\ L % 2 = 0
               /\ (v[1] + v[2]) % 2 # (w[1] + w[2]) % 2
               /\ IF u = 1 THEN d > 0 ELSE d > 1
               /\ a > b => (v[1] + v[2]) % 2 # 1
               /\ a <= b => (v[1] + v[2]) % 2 # 0

\* C16 witness: on a grid of height 3 and even width a vertex of the middle
\* row and a vertex one column away were found forbidden.
C16_Witness ==
    /\ lastOp = "is_forbidden" /\ panic = ""
    /\ query[2] = 3 /\ query[1] = 4
    /\ query[3][2] = 1
    /\ query[3][1] - query[4][1] \in {1, -1}
    /\ answer = <<TRUE>>

\* C17: is_prime(n, m, s, t) is true if and only if the table has an entry for
\* (n, m) with a stored path from s to t; get_prime returns a path exactly
\* when is_prime is true, its vertex order the first such stored sequence, and
\* none otherwise.
C17_PrimeLookup ==
    /\ lastOp = "is_prime" =>
          (answer[1] <=> stored(query[1], query[2], query[3], query[4]) # {})
    /\ lastOp = "get_prime" =>
          /\ panic = ""
          /\ answer # <<>> <=> is_prime(query[1], query[2], query[3], query[4])
          /\ answer # <<>> =>
                /\ answer[1].n = query[1] /\ answer[1].m = query[2]
                /\ answer[1].vertex_order
                     = first_stored(query[1], query[2], query[3], query[4])

\* C18: GridPath::new never yields a GridPath from a vertex order with a
\* non-adjacent consecutive pair, a repeated vertex or a vertex outside
\* [0, n) x [0, m).
C18_NewPathValidates ==
    lastOp = "GridPath::new" /\ panic = "" =>
        IsValidPath(path.n, path.m, path.vertex_order)

\* the outermost call of solve has returned or the program has panicked
Terminated == panic # "" \/ (Len(stack) = 1 /\ returned(stack[1]))

\* a step of the strip loop that stripped the problem
StripStep ==
    /\ running /\ top.pc = "strip"
    /\ Len(stack') = Len(stack) /\ stack'[Len(stack')].pc = "strip"

\* C19: solve terminates, by returning or by a panic, after finitely many
\* steps; every strip strictly reduces the vertex count n * m of the problem
\* being worked on, and every sub-problem of a split has fewer vertices than
\* the problem that was split.
C19_SolveTerminates ==
    /\ <>Terminated
    /\ [][StripStep => area(stack'[Len(stack')].p) < area(top.p)]_vars
    /\ [](\A i \in 2 .. Len(stack) :
             /\ area(stack[i].entry) < area(stack[i - 1].p)
             /\ area(stack[i].p) <= area(stack[i].entry))

\* C19 witness: a call of solve that stripped its problem and then split it
\* has returned a path.
C19_Witness ==
    /\ Finished
    /\ stack[1].ret # <<>>
    /\ stack[1].sub # <<>>
    /\ stack[1].k > 1

\* the vertex v of the path gp lies on the boundary that the direction names
on_boundary(gp, direction, v) ==
    CASE direction = "Up"    -> v[2] = gp.m - 1
      [] direction = "Down"  -> v[2] = 0
      [] direction = "Right" -> v[1] = gp.n - 1
      [] direction = "Left"  -> v[1] = 0

\* the path gp has two consecutive vertices on the boundary of the direction
has_boundary_edge(gp, direction) ==
    \E k \in 2 .. Len(gp.vertex_order) :
        /\ on_boundary(gp, direction, gp.vertex_order[k - 1])
        /\ on_boundary(gp, direction, gp.vertex_order[k])

\* C20: extend(d) on a path with no two consecutive vertices on the boundary
\* named by d ends in the panic NoBoundaryEdge, and the path's vertex order
\* and dimensions are those of before the call.
C20_NoBoundaryEdgeLeavesPath ==
    lastOp \in GridExtension /\ ~has_boundary_edge(before, lastOp) =>
        /\ answer = <<"NoBoundaryEdge">>
        /\ path = before

\* C20 witness: a path was extended once, and a second extension, downward,
\* found no edge on the lower boundary.
C20_Witness ==
    /\ lastOp = "Down" /\ Len(replayed) = 2
    /\ ~has_boundary_edge(before, "Down")
    /\ Len(before.vertex_order) >= 4
    /\ answer = <<"NoBoundaryEdge">>
    /\ path = before


\* the first index k whose vertices k - 1 and k both lie on the boundary, or 0
first_boundary_edge(gp, direction) ==
    first_index({k \in 2 .. Len(gp.vertex_order) :
                    /\ on_boundary(gp, direction, gp.vertex_order[k - 1])
                    /\ on_boundary(gp, direction, gp.vertex_order[k])})

\* the vertices of the 2-wide band that an extension adds to the rectangle of gp
band(gp, direction) ==
    CASE direction = "Up"    -> (0 .. gp.n - 1) \X {gp.m, gp.m + 1}
      [] direction = "Down"  -> (0 .. gp.n - 1) \X {0, 1}
      [] direction = "Right" -> {gp.n, gp.n + 1} \X (0 .. gp.m - 1)
      [] direction = "Left"  -> {0, 1} \X (0 .. gp.m - 1)

\* the translation that an extension applies to the vertices already there
translated(direction, v) ==
    CASE direction = "Down" -> <<v[1], v[2] + 2>>
      [] direction = "Left" -> <<v[1] + 2, v[2]>>
      [] OTHER              -> v

\* new_order is old_order, translated, with a detour spliced between the
\* vertices i - 1 and i that visits every vertex of the band exactly once
is_detour_at(old, direction, i, new_order) ==
    LET old_order == old.vertex_order
        added == Len(new_order) - Len(old_order)
    IN  /\ added = Cardinality(band(old, direction))
        /\ \A k \in 1 .. i - 1 : new_order[k] = translated(direction, old_order[k])
        /\ \A k \in i .. Len(old_order) :
               new_order[k + added] = translated(direction, old_order[k])
        /\ {new_order[k] : k \in i .. i + added - 1} = band(old, direction)

\* the extension of old in the direction did what the description says of it
extends_well(old, direction, new) ==
    /\ new.n = old.n + (IF direction \in {"Left", "Right"} THEN 2 ELSE 0)
    /\ new.m = old.m + (IF direction \in {"Up", "Down"} THEN 2 ELSE 0)
    /\ is_detour_at(old, direction, first_boundary_edge(old, direction), new.vertex_order)
    /\ IsHamiltonianPath(new.n, new.m, new.vertex_order)

\* a Hamiltonian path with an edge on the boundary the direction names
extensible(gp, direction) ==
    /\ IsHamiltonianPath(gp.n, gp.m, gp.vertex_order)
    /\ has_boundary_edge(gp, direction)

\* C21: extend_up of a Hamiltonian path with a consecutive pair on the upper
\* boundary, whichever way the pair is traversed, splices at the first such
\* pair a detour over every vertex of the rows m and m + 1 exactly once, and
\* the result is a Hamiltonian path of the n by m + 2 rectangle.
C21_ExtendUpHamiltonian ==
    lastOp = "Up" /\ extensible(before, "Up") =>
        answer = <<"">> /\ extends_well(before, "Up", path)


\* C22: extend_down, extend_left and extend_right of a Hamiltonian path with a
\* consecutive pair on their boundary, whichever way the pair is traversed,
\* give a Hamiltonian path of the grown rectangle: the old vertices are shifted
\* by 2 in y for down and in x for left, and the detour spliced at the first
\* pair visits every vertex of the new band exactly once.
C22_ExtendOthersHamiltonian ==
    lastOp \in {"Down", "Left", "Right"} /\ extensible(before, lastOp) =>
        answer = <<"">> /\ extends_well(before, lastOp, path)

\* the first boundary pair of gp for the direction runs towards the origin
runs_backwards(gp, direction) ==
    LET i == first_boundary_edge(gp, direction)
        axis == IF direction \in {"Up", "Down"} THEN 1 ELSE 2
    IN  i # 0 /\ gp.vertex_order[i - 1][axis] > gp.vertex_order[i][axis]

\* C22 witness: a Hamiltonian path of a 3 by 3 rectangle grown to the left was
\* then grown downward, along a bottom pair traversed from right to left.
C22_Witness ==
    /\ replayed = <<"Left", "Down">>
    /\ before.n = 5 /\ before.m = 3
    /\ extensible(before, "Down") /\ runs_backwards(before, "Down")
    /\ answer = <<"">> /\ extends_well(before, "Down", path)


\* the first and the last vertex of a vertex order
ends_of(vertex_order) == <<vertex_order[1], vertex_order[Len(vertex_order)]>>

\* a step of solve that applies one extension of extend_many and succeeds
ExtendStep ==
    /\ running /\ top.pc = "extend" /\ top.k <= Len(top.p.extensions)
    /\ panic' = "" /\ stack' # stack

\* C23: a successful extension keeps the path's two ends, translated by 2 for
\* down and left, and so a path returned by solve after extend_many has the
\* dimensions, the first vertex and the last vertex that reconstruct restores
\* on the problem.
C23_ExtensionKeepsEnds ==
    /\ [][ExtendStep =>
            LET direction == top.p.extensions[top.k]
                old == ends_of(top.solution[1].vertex_order)
                new == ends_of(stack'[Len(stack')].solution[1].vertex_order)
            IN  /\ new[1] = translated(direction, old[1])
                /\ new[2] = translated(direction, old[2])]_vars
    /\ [](\A f \in frames :
            returned(f) /\ f.ret # <<>> /\ f.k > 1 =>
                /\ f.ret[1].n = f.p.n /\ f.ret[1].m = f.p.m
                /\ ends_of(f.ret[1].vertex_order) = <<f.p.start_coords, f.p.end_coords>>)


\* condition (1) of a strip: both endpoints of p are more than 2 away from the
\* side the direction names
far_from(p, direction) ==
    CASE direction = "Right" -> p.n - p.start_coords[1] > 2 /\ p.n - p.end_coords[1] > 2
      [] direction = "Up"    -> p.m - p.start_coords[2] > 2 /\ p.m - p.end_coords[2] > 2
      [] direction = "Left"  -> p.start_coords[1] >= 2 /\ p.end_coords[1] >= 2
      [] direction = "Down"  -> p.start_coords[2] >= 2 /\ p.end_coords[2] >= 2

\* the endpoint v seen from the problem stripped in the direction
stripped_coords(direction, v) ==
    CASE direction = "Left" -> <<v[1] - 2, v[2]>>
      [] direction = "Down" -> <<v[1], v[2] - 2>>
      [] OTHER              -> v

\* the candidate of a strip: p with the dimension of the direction reduced by
\* 2 and, for left and down, the endpoints translated by -2
candidate(p, direction) ==
    [n |-> IF direction \in {"Left", "Right"} THEN p.n - 2 ELSE p.n,
     m |-> IF direction \in {"Up", "Down"} THEN p.m - 2 ELSE p.m,
     start_coords |-> stripped_coords(direction, p.start_coords),
     end_coords |-> stripped_coords(direction, p.end_coords)]

\* conditions (1) and (2) of a strip of p in the direction
strippable(p, direction) ==
    /\ far_from(p, direction)
    /\ LET c == candidate(p, direction)
       IN  /\ are_color_compatible(c.n, c.m, c.start_coords, c.end_coords)
           /\ ~is_forbidden(c.n, c.m, c.start_coords, c.end_coords)

\* the direction each side-specific strip is about
side_of(name) ==
    CASE name = "strip_right" -> "Right"
      [] name = "strip_up"    -> "Up"
      [] name = "strip_left"  -> "Left"
      [] name = "strip_down"  -> "Down"

\* the first of Right, Up, Left, Down in which p can be stripped, "" if none
first_strippable(p) ==
    IF strippable(p, "Right") THEN "Right"
    ELSE IF strippable(p, "Up") THEN "Up"
    ELSE IF strippable(p, "Left") THEN "Left"
    ELSE IF strippable(p, "Down") THEN "Down"
    ELSE ""

\* C24: a side-specific strip returns true exactly when both endpoints are
\* far enough from that side and the candidate reduced by 2 is acceptable;
\* strip tries Right, Up, Left, Down in that order and applies only the first
\* that succeeds.
C24_StripIffAndOrder ==
    [][/\ lastOp' \in StripOps \ {"strip"} =>
            (answer' = <<TRUE>> <=> strippable(problem, side_of(lastOp')))
       /\ lastOp' = "strip" =>
            LET d == first_strippable(problem)
            IN  /\ answer' = <<d # "">>
                /\ problem'.extensions = IF d = "" THEN problem.extensions
                                         ELSE Append(problem.extensions, d)]_vars

\* C24 witness: strip has stripped a problem downward, the three directions
\* tried before it having failed, after an earlier strip.
C24_Witness ==
    /\ lastOp = "strip" /\ answer = <<TRUE>>
    /\ Len(problem.extensions) >= 2
    /\ problem.extensions[Len(problem.extensions)] = "Down"


\* C25: a strip that returns true reduces the stripped dimension by 2 and
\* leaves the other, leaves s and t for right and up and translates both by
\* -2 for left and down, appends the one direction stripped to extensions, and
\* keeps the dimensions at least 1 and the endpoints in bounds; a strip that
\* returns false leaves n, m, s, t and extensions as they were.
C25_StripStateChange ==
    [][lastOp' \in StripOps =>
         IF answer' = <<TRUE>>
         THEN \E d \in GridExtension :
                /\ lastOp' # "strip" => d = side_of(lastOp')
                /\ problem'.extensions = Append(problem.extensions, d)
                /\ problem'.n = candidate(problem, d).n
                /\ problem'.m = candidate(problem, d).m
                /\ problem'.start_coords = candidate(problem, d).start_coords
                /\ problem'.end_coords = candidate(problem, d).end_coords
                /\ problem'.n >= 1 /\ problem'.m >= 1
                /\ ~new_out_of_bounds(problem'.n, problem'.m,
                                      problem'.start_coords, problem'.end_coords)
         ELSE /\ answer' = <<FALSE>>
              /\ problem' = problem]_vars

\* C25 witness: strip_down has succeeded and moved both endpoints, the start
\* vertex to the bottom row, after a strip to the left.
C25_Witness ==
    /\ lastOp = "strip_down" /\ answer = <<TRUE>>
    /\ problem.extensions = <<"Left", "Down">>
    /\ problem.start_coords[2] = 0 /\ problem.end_coords[2] > 0
    /\ original.start_coords = <<problem.start_coords[1] + 2, 2>>


\* the vertex v moved down by d
lowered(v, d) == <<v[1], v[2] - d>>

\* lower and upper are the two halves of the n by m problem from s to t cut
\* along the edge between L = (x, y) and U = (x, y + 1)
is_split_at(n, m, s, t, x, y, lower, upper) ==
    LET L == <<x, y>>
        U == <<x, y + 1>>
    IN  /\ lower.n = n /\ lower.m = y + 1
        /\ upper.n = n /\ upper.m = m - (y + 1)
        /\ lower.m >= 1 /\ upper.m >= 1 /\ lower.m + upper.m = m
        /\ <<lower.start_coords, lower.end_coords>> =
               IF s[2] < t[2] THEN <<s, L>> ELSE <<L, t>>
        /\ <<upper.start_coords, upper.end_coords>> =
               IF s[2] < t[2] THEN <<lowered(U, y + 1), lowered(t, y + 1)>>
                              ELSE <<lowered(s, y + 1), lowered(U, y + 1)>>
        /\ {lower.start_coords, lower.end_coords} \subseteq Coords(lower.n, lower.m)
        /\ {upper.start_coords, upper.end_coords} \subseteq Coords(upper.n, upper.m)
        /\ {L, U} \cap {s, t} = {}
        /\ {L, U} \subseteq Coords(n, m) /\ adjacent(L, U)

\* the vertex and the problem with the two axes exchanged
swapped(v) == <<v[2], v[1]>>
transposed(p) ==
    [n |-> p.m, m |-> p.n, start_coords |-> swapped(p.start_coords),
     end_coords |-> swapped(p.end_coords)]

\* the pair a split returned
halves_of(result) == result[1]

\* C26: the pair (lower, upper) that split_horizontally returns is the cut of
\* the problem along an edge L = (x, y), U = (x, y + 1): lower is n by y + 1
\* from s to L if s is below t and from L to t otherwise, upper is n by
\* m - (y + 1) from U to t resp. from s to U moved down by y + 1, the heights
\* are at least 1 and sum to m, the endpoints are in bounds, and L and U are
\* adjacent and differ from s and t; split_vertically does the same with the
\* axes exchanged.
C26_SplitShape ==
    /\ lastOp = "split_horizontally" /\ answer # << <<>> >> =>
        \E x \in 0 .. problem.n - 1, y \in 0 .. problem.m - 1 :
            is_split_at(problem.n, problem.m, problem.start_coords, problem.end_coords,
                        x, y, halves_of(answer[1])[1], halves_of(answer[1])[2])
    /\ lastOp = "split_vertically" /\ answer # << <<>> >> =>
        \E x \in 0 .. problem.m - 1, y \in 0 .. problem.n - 1 :
            is_split_at(problem.m, problem.n,
                        swapped(problem.start_coords), swapped(problem.end_coords),
                        x, y, transposed(halves_of(answer[1])[1]),
                        transposed(halves_of(answer[1])[2]))

\* C26 witness: split_horizontally has cut a problem whose start vertex is
\* above its end vertex, away from the left column, into two halves more than
\* one row high.
C26_Witness ==
    /\ lastOp = "split_horizontally" /\ answer # << <<>> >>
    /\ problem.start_coords[2] > problem.end_coords[2]
    /\ halves_of(answer[1])[1].m >= 2 /\ halves_of(answer[1])[2].m >= 2
    /\ halves_of(answer[1])[1].start_coords[1] > 0


\* the two halves of the n by m problem from s to t cut between (x, y) and
\* (x, y + 1), as the description of the split gives them
cut_at(n, m, s, t, x, y) ==
    IF s[2] < t[2]
    THEN << [n |-> n, m |-> y + 1, start_coords |-> s, end_coords |-> <<x, y>>],
            [n |-> n, m |-> m - (y + 1), start_coords |-> <<x, 0>>,
             end_coords |-> lowered(t, y + 1)] >>
    ELSE << [n |-> n, m |-> y + 1, start_coords |-> <<x, y>>, end_coords |-> t],
            [n |-> n, m |-> m - (y + 1), start_coords |-> lowered(s, y + 1),
             end_coords |-> <<x, 0>>] >>

\* are_color_compatible and not is_forbidden
acceptable(n, m, s, t) == are_color_compatible(n, m, s, t) /\ ~is_forbidden(n, m, s, t)

\* the candidate edges <<y, x>> of a horizontal split of the n by m problem
\* from s to t: between the rows of s and t, not touching s or t, both halves
\* acceptable
candidate_edges(n, m, s, t) ==
    LET low == IF s[2] < t[2] THEN s[2] ELSE t[2]
        high == IF s[2] < t[2] THEN t[2] ELSE s[2]
    IN  {e \in (low .. high - 1) \X (0 .. n - 1) :
            LET halves == cut_at(n, m, s, t, e[2], e[1])
            IN  /\ {<<e[2], e[1]>>, <<e[2], e[1] + 1>>} \cap {s, t} = {}
                /\ acceptable(halves[1].n, halves[1].m,
                              halves[1].start_coords, halves[1].end_coords)
                /\ acceptable(halves[2].n, halves[2].m,
                              halves[2].start_coords, halves[2].end_coords)}

\* the candidate met first, y ascending and then x ascending
first_edge(edges) ==
    CHOOSE e \in edges : \A f \in edges : e[1] < f[1] \/ (e[1] = f[1] /\ e[2] <= f[2])

\* can is the answer of can_be_split_* and split the answer of split_* for
\* the n by m problem from s to t, seen with the split axis vertical
splits_agree(n, m, s, t, can, split) ==
    LET edges == candidate_edges(n, m, s, t)
    IN  /\ can <=> split # <<>>
        /\ s[2] = t[2] => ~can /\ split = <<>>
        /\ can <=> edges # {}
        /\ split # <<>> =>
             LET e == first_edge(edges)
                 halves == cut_at(n, m, s, t, e[2], e[1])
             IN  \A h \in 1 .. 2 :
                    /\ split[1][h].n = halves[h].n /\ split[1][h].m = halves[h].m
                    /\ split[1][h].start_coords = halves[h].start_coords
                    /\ split[1][h].end_coords = halves[h].end_coords

\* the option of a pair with the axes of both problems exchanged
transposed_split(split) ==
    IF split = <<>> THEN <<>> ELSE << <<transposed(split[1][1]), transposed(split[1][2])>> >>

\* C27: can_be_split_horizontally is true exactly when split_horizontally
\* returns a pair, both are false and none when s.y = t.y, and the pair is the
\* cut at the first edge, y ascending between the rows of s and t and x
\* ascending, that touches neither s nor t and has both halves acceptable;
\* likewise for the vertical pair of operations.
C27_CanSplitIffSplit ==
    /\ lastOp = "can_be_split_horizontally" =>
        splits_agree(problem.n, problem.m, problem.start_coords, problem.end_coords,
                     answer[1], split_horizontally(problem))
    /\ lastOp = "split_horizontally" =>
        splits_agree(problem.n, problem.m, problem.start_coords, problem.end_coords,
                     can_be_split_horizontally(problem), answer[1])
    /\ lastOp = "can_be_split_vertically" =>
        splits_agree(problem.m, problem.n,
                     swapped(problem.start_coords), swapped(problem.end_coords),
                     answer[1], transposed_split(split_vertically(problem)))
    /\ lastOp = "split_vertically" =>
        splits_agree(problem.m, problem.n,
                     swapped(problem.start_coords), swapped(problem.end_coords),
                     can_be_split_vertically(problem), transposed_split(answer[1]))

\* C27 witness: split_vertically has returned a pair for a problem that has
\* more than one candidate edge, the first of them not in the bottom row.
C27_Witness ==
    /\ lastOp = "split_vertically" /\ answer # << <<>> >>
    /\ can_be_split_vertically(problem)
    /\ LET edges == candidate_edges(problem.m, problem.n, swapped(problem.start_coords),
                                    swapped(problem.end_coords))
       IN  Cardinality(edges) >= 2 /\ first_edge(edges)[2] > 0


\* path is a Hamiltonian path of the problem p from its start to its end vertex
solves(p, gp) ==
    /\ gp.n = p.n /\ gp.m = p.m
    /\ IsHamiltonianPath(p.n, p.m, gp.vertex_order)
    /\ ends_of(gp.vertex_order) = <<p.start_coords, p.end_coords>>

\* a step of solve that joins the solutions of the two sub-problems of a split
JoinStep ==
    /\ running /\ Len(stack) >= 2 /\ top.pc = "done" /\ caller.pc \in {"above", "right"}
    /\ top.ret # <<>> /\ panic' = "" /\ stack' # stack

\* C28: in the split steps of solve, when the two sub-problems' solutions are
\* Hamiltonian paths of them, the joined sequence is a solution of the parent
\* problem: it starts at the parent's s, ends at its t, its two vertices at
\* the junction are adjacent, and it covers the parent's grid exactly once,
\* whether s is below or left of t or above or right of it.
C28_JoinSolvesParent ==
    [][JoinStep /\ solves(caller.sub[1], caller.first[1]) /\ solves(top.p, top.ret[1]) =>
         LET joined == stack'[Len(stack')].solution[1]
             cut == Len(caller.first[1].vertex_order)
         IN  /\ solves(caller.p, joined)
             /\ adjacent(joined.vertex_order[cut], joined.vertex_order[cut + 1])]_vars


\* one of the reductions of solve applies to the problem p
reducible(p) ==
    \/ is_prime(p.n, p.m, p.start_coords, p.end_coords)
    \/ can_be_split_horizontally(p)
    \/ can_be_split_vertically(p)
    \/ p.n = 1 \/ p.m = 1

\* the problem solve was first called on has two different endpoints
distinct_ends == stack[1].entry.start_coords # stack[1].entry.end_coords

\* C29: for an acceptable problem with s # t, and for every sub-problem the
\* recursion reaches, a reduction applies once no strip does (the problem is
\* in the prime table for its endpoints, can be split, or has a dimension
\* equal to 1), and the panic that ends solve is never executed.
C29_UnsolvableUnreachable ==
    distinct_ends =>
        /\ panic # "Unsolvable"
        /\ running /\ top.pc = "reduce" => reducible(top.p)

\* C29 witness: a sub-problem two calls deep that no strip applies to, wider
\* and higher than 1 and not in the prime table, is about to be split.
C29_Witness ==
    /\ distinct_ends /\ running /\ Len(stack) >= 3 /\ top.pc = "reduce"
    /\ top.p.n > 1 /\ top.p.m > 1
    /\ ~is_prime(top.p.n, top.p.m, top.p.start_coords, top.p.end_coords)
    /\ reducible(top.p)


\* C30: acceptability does not depend on the order of the endpoints: for
\* in-bounds v and w, is_forbidden(v, w) = is_forbidden(w, v) and
\* are_color_compatible(v, w) = are_color_compatible(w, v), so the problem
\* from s to t is acceptable exactly when the problem from t to s is.
C30_EndpointOrderSymmetry ==
    LET n == query[1]
        m == query[2]
        v == query[3]
        w == query[4]
    IN  /\ lastOp = "is_forbidden" /\ panic = "" =>
            answer[1] = is_forbidden(n, m, w, v)
        /\ lastOp = "are_color_compatible" /\ panic = "" =>
            answer[1] = are_color_compatible(n, m, w, v)
        /\ lastOp \in {"is_forbidden", "are_color_compatible"} /\ panic = "" =>
            (is_acceptable(GridProblem_new(n, m, v, w))
                <=> is_acceptable(GridProblem_new(n, m, w, v)))

\* C30 witness: on a grid 3 wide, v in the middle column and w in the left
\* one, of different colors, were found forbidden.
C30_Witness ==
    /\ lastOp = "is_forbidden" /\ panic = ""
    /\ query[1] = 3 /\ query[2] >= 4
    /\ query[3][1] = 1 /\ query[4][1] = 0
    /\ answer = <<TRUE>>

=============================================================================
